---------------------------- MODULE Spec2Model ----------------------------
(***************************************************************************)
(* Model of the here-news extraction pipeline:                             *)
(*   - the Firestore-backed Task Store (services/task_store.py) and the    *)
(*     HTTP stage handlers that read it and publish Pub/Sub jobs           *)
(*     (server.py, services/pubsub_publisher.py);                          *)
(*   - the claim extractor and its premise gatekeeper                      *)
(*     (services/semantic_analyzer.py);                                    *)
(*   - the content validator (services/content_validator.py);              *)
(*   - the entity resolver's deduplication (services/entity_resolver.py);  *)
(*   - the page loader's readability check                                 *)
(*     (services/universal_web_extractor.py);                              *)
(*   - the workers that record token costs through the Task Store          *)
(*     (TaskStore.add_token_cost);                                         *)
(*   - the submission endpoint of the web application and the chat       *)
(*     unlock (app/routers/extraction.py,                                  *)
(*     app/database/repositories/chat_session_repo.py);                    *)
(*   - the generative-model calls and their retry (_with_retry);           *)
(*   - the entity resolver's Wikidata linking and its cache.               *)
(* Each component has its own specification (SpecTasks, SpecClaims,        *)
(* SpecValidator, SpecResolver, SpecLoader, SpecCosts, SpecSubmit,         *)
(* SpecRetry, SpecLinker); the variables of the other components stay at   *)
(* their initial value.                                                    *)
(***************************************************************************)
EXTENDS Integers, Sequences, FiniteSets, TLC

VARIABLES
    tasks,        \* Firestore collection "extraction_tasks": task id -> document
    published,    \* Pub/Sub messages published so far: [task_id, stage]
    response,     \* what the last HTTP handler returned (or raised)
    ce_pc,        \* claim extractor: "ready" (LLM answer received) or "done"
    ce_llm,       \* claim extractor: the generative model's answer
    ce_out,       \* claim extractor: what extract_enhanced_claims returned
    cv_pc,        \* content validator: "ready" or "done"
    cv_in,        \* content validator: raw extraction and the upstream answer
    cv_out,       \* content validator: the ValidationResult returned
    er_pc,        \* entity resolver: "ready" or "done"
    er_in,        \* entity resolver: the raw mentions handed to deduplication
    er_out,       \* entity resolver: canonical entities by type
    pl_pc,        \* page loader: "ready" (page rendered) or "done"
    pl_in,        \* page loader: the rendered page handed to the readability check
    pl_out,       \* page loader: the dict _check_readability returned
    tc_costs,     \* token costs: the token_costs field of one task's document
    tc_workers,   \* token costs: each worker's position in add_token_cost
    sub_db,       \* submission: the SQL database (tasks, credits, user links)
    sub_reqs,     \* submission: each request's position in submit_url
    sub_now,      \* submission: datetime.utcnow(), in hours
    rt_call,      \* model call: one generative-model call and its attempts
    kb_cache,     \* entity linking: EntityResolver.wikidata_cache
    kb_calls      \* entity linking: each _link_wikidata call's position

taskVars == <<tasks, published, response>>
ceVars   == <<ce_pc, ce_llm, ce_out>>
cvVars   == <<cv_pc, cv_in, cv_out>>
erVars   == <<er_pc, er_in, er_out>>
plVars   == <<pl_pc, pl_in, pl_out>>
tcVars   == <<tc_costs, tc_workers>>
subVars  == <<sub_db, sub_reqs, sub_now>>
rtVars   == <<rt_call>>
kbVars   == <<kb_cache, kb_calls>>
vars     == <<tasks, published, response, ce_pc, ce_llm, ce_out,
              cv_pc, cv_in, cv_out, er_pc, er_in, er_out,
              pl_pc, pl_in, pl_out, tc_costs, tc_workers,
              sub_db, sub_reqs, sub_now, rt_call, kb_cache, kb_calls>>

None == "None"          \* Python's None / a Firestore null

(***************************************************************************)
(* Shared string helpers (Python str.lower, the `in` substring test,       *)
(* str.strip of blanks).                                                   *)
(***************************************************************************)
UpperChars == <<"A","B","C","D","E","F","G","H","I","J","K","L","M",
                "N","O","P","Q","R","S","T","U","V","W","X","Y","Z">>
LowerChars == <<"a","b","c","d","e","f","g","h","i","j","k","l","m",
                "n","o","p","q","r","s","t","u","v","w","x","y","z">>

LowerChar(c) ==
    IF \E i \in 1..Len(UpperChars) : UpperChars[i] = c
    THEN LowerChars[CHOOSE i \in 1..Len(UpperChars) : UpperChars[i] = c]
    ELSE c

RECURSIVE Lower(_)
Lower(s) ==                                       \* str.lower(), by halves
    IF Len(s) = 0 THEN ""
    ELSE IF Len(s) = 1 THEN LowerChar(s)
    ELSE CHOOSE lowered \in
             {Lower(left) \o Lower(right) :
                 left  \in {SubSeq(s, 1, Len(s) \div 2)},
                 right \in {SubSeq(s, (Len(s) \div 2) + 1, Len(s))}} : TRUE

\* Python `h in s` for strings.
Contains(s, h) ==
    \E i \in 1..(Len(s) - Len(h) + 1) : SubSeq(s, i, i + Len(h) - 1) = h

StartsWith(s, p) == Len(s) >= Len(p) /\ SubSeq(s, 1, Len(p)) = p

\* The character at position i, "" outside the string.
Ch(s, i) == IF i >= 1 /\ i <= Len(s) THEN SubSeq(s, i, i) ELSE ""

Whitespace == {" ", "\n", "\t", "\r"}             \* what str.strip/split and \s take
IsSpace(c) == c \in Whitespace
IsUpper(c) == \E i \in 1..Len(UpperChars) : UpperChars[i] = c
IsLower(c) == \E i \in 1..Len(LowerChars) : LowerChars[i] = c
IsAlpha(c) == IsUpper(c) \/ IsLower(c)

(***************************************************************************)
(* Task Store (services/task_store.py)                                     *)
(***************************************************************************)
MaxTasks   == 1     \* task ids that uuid4 can hand out in one run
MaxVersion == 1     \* distinct payload values a writer may store
MaxUrls    == 1     \* distinct submitted URLs

TaskIds  == 1..MaxTasks
Versions == 1..MaxVersion
Urls     == 1..MaxUrls

NoDoc == [exists |-> FALSE]     \* the document does not exist

\* class TaskStatus(str, Enum)
TaskStatus ==
    [PENDING |-> "pending", PROCESSING |-> "processing",
     COMPLETED |-> "completed", FAILED |-> "failed"]

TaskStatusValues == {TaskStatus[m] : m \in DOMAIN TaskStatus}

\* The fixed stage order of the pipeline; "pending" is the stage of a new task.
StageOrder == <<"pending", "extraction", "cleaning", "resolution", "semantization">>
Stages     == {StageOrder[i] : i \in 1..Len(StageOrder)}
StageRank(s) == CHOOSE i \in 1..Len(StageOrder) : StageOrder[i] = s

\* Fields of the result dict that the writers address
\* ("result.title", "result.resolved_entities").
ResultFields == {"title", "resolved_entities"}
Absent == 0             \* the key is not in the dict
ResultDicts == [ResultFields -> Versions \cup {Absent}]
NoResult == [f \in ResultFields |-> -1]      \* result is None
\* Python truthiness of task.result: None and the empty dict are falsy
Falsy(result) == result = NoResult \/ \A f \in ResultFields : result[f] = Absent
\* what the extraction stage stores with set_task_result: a title, no entities yet
RawResults == {r \in ResultDicts : r["title"] # Absent /\ r["resolved_entities"] = Absent}
NoData == 0             \* semantic_data is None

Stamp == "now"          \* datetime.now().isoformat()

\* create_task: the document written for a new task
NewTaskDoc(url) ==
    [exists |-> TRUE, url |-> url, status |-> TaskStatus.PENDING,
     current_stage |-> "pending", result |-> NoResult, semantic_data |-> NoData,
     error |-> None, completed_at |-> None]

\* get_task: the document (NoDoc stands for the None it returns for a missing one)
get_task(t) == tasks[t]

\* document(task_id).update(update_data): merge the given fields
DocUpdate(t, fields) ==
    /\ tasks[t].exists          \* update() of a missing document raises NotFound
    /\ tasks' = [tasks EXCEPT ![t] =
                   [f \in DOMAIN tasks[t] |->
                      IF f \in DOMAIN fields THEN fields[f] ELSE tasks[t][f]]]

create_task(t, url) ==
    tasks' = [tasks EXCEPT ![t] = NewTaskDoc(url)]

\* update_data of update_task_status
StatusUpdateData(status, stage) ==
    LET base == [status |-> status]
        withStage == IF stage # None
                     THEN [f \in {"status", "current_stage"} |->
                             IF f = "status" THEN status ELSE stage]
                     ELSE base
    IN  IF status \in {TaskStatus.COMPLETED, TaskStatus.FAILED}
        THEN [f \in DOMAIN withStage \cup {"completed_at"} |->
                IF f = "completed_at" THEN Stamp ELSE withStage[f]]
        ELSE withStage

update_task_status(t, status, stage) ==
    /\ DocUpdate(t, StatusUpdateData(status, stage))
    /\ UNCHANGED <<published, response>>

set_task_result(t, result) ==
    /\ DocUpdate(t, [result |-> result, status |-> TaskStatus.COMPLETED,
                     completed_at |-> Stamp])
    /\ UNCHANGED <<published, response>>

set_task_error(t, error) ==
    /\ DocUpdate(t, [error |-> error, status |-> TaskStatus.FAILED,
                     completed_at |-> Stamp])
    /\ UNCHANGED <<published, response>>

set_semantic_data(t, data) ==
    /\ DocUpdate(t, [semantic_data |-> data])
    /\ UNCHANGED <<published, response>>

\* update of the nested field "result.<field>": a null result becomes a map
ResultWithField(result, field, value) ==
    [f \in ResultFields |->
       IF f = field THEN value
       ELSE IF result = NoResult THEN Absent ELSE result[f]]

update_result_field(t, field, value) ==
    /\ tasks[t].exists
    /\ DocUpdate(t, [result |-> ResultWithField(tasks[t].result, field, value)])
    /\ UNCHANGED <<published, response>>

(***************************************************************************)
(* Pub/Sub publisher (services/pubsub_publisher.py)                        *)
(***************************************************************************)
publish_job(t, stage) == published' = published \cup {[task_id |-> t, stage |-> stage]}

(***************************************************************************)
(* HTTP handlers (server.py)                                               *)
(***************************************************************************)
NoResponse == [kind |-> "none", detail |-> "", task_id |-> 0]

\* POST /api/extract: a new task under a fresh uuid4, and an extraction job
extract_url(url) ==
    \E t \in TaskIds :
        /\ ~tasks[t].exists
        /\ create_task(t, url)
        /\ publish_job(t, "extraction")
        /\ response' = [kind |-> "submitted", detail |-> "", task_id |-> t]

\* A variant of the handlers' body that publishes the job for every task it
\* finds, whatever the task's status.
StageHandler_NoGate(t, stage) ==
    IF ~get_task(t).exists
    THEN /\ response' = [kind |-> "error", detail |-> "Task not found", task_id |-> t]
         /\ UNCHANGED <<tasks, published>>
    ELSE /\ publish_job(t, stage)
         /\ response' = [kind |-> "success", detail |-> "", task_id |-> t]
         /\ UNCHANGED tasks

\* The body shared by clean_task_content, resolve_task_entities and
\* semantize_task_content.  `TaskStatus.BLOCKED` is evaluated as soon as the
\* task is found; the enum of task_store.py has no such member, so the
\* attribute lookup raises AttributeError.
StageHandler(t, stage) ==
    LET task == get_task(t) IN
    IF ~task.exists
    THEN /\ response' = [kind |-> "error", detail |-> "Task not found", task_id |-> t]
         /\ UNCHANGED <<tasks, published>>
    ELSE IF "BLOCKED" \notin DOMAIN TaskStatus
    THEN /\ response' = [kind |-> "raised", detail |-> "AttributeError", task_id |-> t]
         /\ UNCHANGED <<tasks, published>>
    ELSE IF task.status = "blocked"
    THEN /\ response' = [kind |-> "error", detail |-> "Task was blocked", task_id |-> t]
         /\ UNCHANGED <<tasks, published>>
    ELSE IF task.status # TaskStatus.COMPLETED
    THEN /\ response' = [kind |-> "error", detail |-> "Task not completed yet", task_id |-> t]
         /\ UNCHANGED <<tasks, published>>
    ELSE IF Falsy(task.result)
    THEN /\ response' = [kind |-> "error", detail |-> "No result", task_id |-> t]
         /\ UNCHANGED <<tasks, published>>
    ELSE /\ publish_job(t, stage)
         /\ response' = [kind |-> "success", detail |-> "", task_id |-> t]
         /\ UNCHANGED tasks

clean_task_content(t)     == StageHandler(t, "cleaning")
resolve_task_entities(t)  == StageHandler(t, "resolution")
semantize_task_content(t) == StageHandler(t, "semantization")

\* GET /api/task/{task_id}.  The response dict carries the stored status and
\* current_stage.  A task that is not completed reaches the comparison with
\* `TaskStatus.BLOCKED`, whose attribute lookup raises AttributeError; the
\* branches after the lookup are those the code would take with the member.
get_task_status(t) ==
    LET task == get_task(t)
        body == [kind |-> "status", detail |-> "", task_id |-> t,
                 status |-> task.status, current_stage |-> task.current_stage]
    IN
    /\ UNCHANGED <<tasks, published>>
    /\ IF ~task.exists
       THEN response' = [kind |-> "error", detail |-> "Task not found", task_id |-> t]
       ELSE IF task.status = TaskStatus.COMPLETED
       THEN response' = body
       ELSE IF "BLOCKED" \notin DOMAIN TaskStatus
       THEN response' = [kind |-> "raised", detail |-> "AttributeError", task_id |-> t]
       ELSE response' = body

(***************************************************************************)
(* Specification of the Task Store and its handlers                        *)
(***************************************************************************)
CeIdle == ce_pc = "idle" /\ ce_llm = None /\ ce_out = None
CvIdle == cv_pc = "idle" /\ cv_in = None /\ cv_out = None
ErIdle == er_pc = "idle" /\ er_in = None /\ er_out = None
PlIdle == pl_pc = "idle" /\ pl_in = None /\ pl_out = None
TcIdle == tc_costs = None /\ tc_workers = None
SubIdle == sub_db = None /\ sub_reqs = None /\ sub_now = 0
RtIdle == rt_call = None
KbIdle == kb_cache = None /\ kb_calls = None

InitTasks ==
    /\ tasks = [t \in TaskIds |-> NoDoc]
    /\ published = {}
    /\ response = NoResponse
    /\ CeIdle /\ CvIdle /\ ErIdle /\ PlIdle /\ TcIdle /\ SubIdle /\ RtIdle /\ KbIdle

TasksOnly == UNCHANGED <<ceVars, cvVars, erVars, plVars, tcVars, subVars, rtVars, kbVars>>

ExtractUrl == (\E u \in Urls : extract_url(u)) /\ TasksOnly

UpdateTaskStatus ==
    /\ \E t \in TaskIds, s \in TaskStatusValues, st \in Stages \cup {None} :
          update_task_status(t, s, st)
    /\ TasksOnly

SetTaskResult == (\E t \in TaskIds, r \in RawResults : set_task_result(t, r)) /\ TasksOnly

SetTaskError == (\E t \in TaskIds : set_task_error(t, "error")) /\ TasksOnly

SetSemanticData ==
    (\E t \in TaskIds, v \in Versions : set_semantic_data(t, v)) /\ TasksOnly

UpdateResultField ==
    /\ \E t \in TaskIds, f \in ResultFields, v \in Versions :
          update_result_field(t, f, v)
    /\ TasksOnly

CleanTaskContent == (\E t \in TaskIds : clean_task_content(t)) /\ TasksOnly

ResolveTaskEntities == (\E t \in TaskIds : resolve_task_entities(t)) /\ TasksOnly

SemantizeTaskContent == (\E t \in TaskIds : semantize_task_content(t)) /\ TasksOnly

GetTaskStatus == (\E t \in TaskIds : get_task_status(t)) /\ TasksOnly

NextTasks ==
    \/ ExtractUrl
    \/ UpdateTaskStatus
    \/ SetTaskResult
    \/ SetTaskError
    \/ SetSemanticData
    \/ UpdateResultField
    \/ CleanTaskContent
    \/ ResolveTaskEntities
    \/ SemantizeTaskContent
    \/ GetTaskStatus

SpecTasks == InitTasks /\ [][NextTasks]_vars



(***************************************************************************)
(* Claim extractor (services/semantic_analyzer.py)                         *)
(*                                                                         *)
(* A run starts when the generative model's answer has been parsed         *)
(* (ce_llm) and ends with the dict extract_enhanced_claims returns         *)
(* (ce_out).  Confidences are in thousandths (0.65 is 650).                *)
(***************************************************************************)
MaxClaims == 2      \* candidate claims in one answer of the generative model

SourceUrl     == "https://example.org/a"
SchemaVersion == "1.0"                  \* _claim_id(..., version="1.0")

\* Shapes of the `when` value of a candidate claim.  kind is "dict" for a JSON
\* object, "missing" for an absent key (claim.get('when', {})) and "str" for
\* a JSON string, which the code does not expect.
WhenDict(date, event_time, ctx) ==
    [kind |-> "dict", date |-> date, time |-> None, precision |-> None,
     event_time |-> event_time, temporal_context |-> ctx, reported_time |-> None,
     event_time_iso |-> None]
WhenDated   == WhenDict("2025-10-19", "evening of 19 October", None)
WhenUndated == WhenDict("", None, "last week")
WhenMissing == [WhenDict(None, None, None) EXCEPT !.kind = "missing"]
WhenString  == [WhenDict(None, None, None) EXCEPT !.kind = "str"]

Texts == {"Jane Doe attended the event",
          "Jane Doe Reportedly attended the event",
          "Jane Doe was killed"}
WhoLists == {<<"PERSON:Jane Doe">>, <<"ORG:Acme", "Jane Doe">>, <<"Jane Doe">>, <<>>,
             <<"GPE:Paris">>, <<"spokesman: Jane Doe">>}
Whens == {WhenDated, WhenUndated, WhenMissing, WhenString}
Modalities == {"official_fact", "reported_claim", "rumor"}
EvidenceLists == {<<>>, <<"statement">>}
\* in thousandths: two values in range, 1.0, and two outside [0, 1]
RawConfidences == {900, 500, 1000, 1500, -200}

\* every candidate claim over the field values above
Candidates ==
    [text : Texts, who : WhoLists, where : {<<"GPE: Paris">>}, when : Whens,
     modality : Modalities, evidence_references : EvidenceLists,
     confidence : RawConfidences]

\* the other claims of a batch: one that is admitted, one that is excluded,
\* one whose `when` is a string
Companions ==
    { [text |-> "Acme opened a plant", who |-> <<"ORG:Acme">>, where |-> <<"Lyon">>,
       when |-> WhenDict("2025-10-01", None, None), modality |-> "official_fact",
       evidence_references |-> <<"document">>, confidence |-> 900],
      [text |-> "Bob Roe allegedly left", who |-> <<"PERSON:Bob Roe">>,
       where |-> <<"GPE:Oslo">>, when |-> WhenDict("2025-09-09", None, None),
       modality |-> "allegation", evidence_references |-> <<"statement">>,
       confidence |-> 900],
      [text |-> "Carol Coe spoke", who |-> <<"PERSON:Carol Coe">>,
       where |-> <<"GPE:Rome">>, when |-> WhenString, modality |-> "reported_claim",
       evidence_references |-> <<"statement">>, confidence |-> 900] }

\* --- _normalize_claims -------------------------------------------------

\* _claim_id: sha256 of "version|url|text", kept as the hashed triple
claim_id(text, url) == <<SchemaVersion, url, text>>

OrNone(v) == IF v = "" THEN None ELSE v        \* `v or None`

normalize_when(when, reported_time_iso) ==
    [kind |-> "dict", date |-> OrNone(when.date), time |-> OrNone(when.time),
     precision |-> IF OrNone(when.precision) = None THEN "approximate" ELSE when.precision,
     event_time |-> OrNone(when.event_time),
     temporal_context |-> OrNone(when.temporal_context),
     reported_time |-> reported_time_iso,
     event_time_iso |-> IF OrNone(when.date) # None /\ OrNone(when.time) # None
                        THEN when.date \o "T" \o when.time \o "Z" ELSE None]

\* Python truthiness: a dict with keys and a non-empty string are truthy,
\* the default {} of an absent key is falsy
WhenTruthy(when) == when.kind \in {"dict", "str"}

\* A normalization that only cuts the value to [0, 0.99].
normalize_confidence_ClampOnly(confidence) ==
    LET lo == IF confidence > 0 THEN confidence ELSE 0
    IN  IF lo < 990 THEN lo ELSE 990

normalize_confidence(confidence) ==
    LET c == IF confidence < 0 \/ confidence > 1000 THEN 700 ELSE confidence
        lo == IF c > 0 THEN c ELSE 0
    IN  IF lo < 990 THEN lo ELSE 990

\* A normalization whose id is taken of the text and the modality.
normalize_claim_IdOfModality(claim, url) ==
    [text |-> claim.text, who |-> claim.who, where |-> claim.where,
     modality |-> claim.modality, evidence_references |-> claim.evidence_references,
     id |-> claim_id(claim.text \o "|" \o claim.modality, url),
     when |-> IF WhenTruthy(claim.when) /\ claim.when.kind = "dict"
              THEN normalize_when(claim.when, Stamp) ELSE claim.when,
     confidence |-> normalize_confidence(claim.confidence)]

normalize_claim(claim, url) ==
    [text |-> claim.text, who |-> claim.who, where |-> claim.where,
     modality |-> claim.modality, evidence_references |-> claim.evidence_references,
     id |-> claim_id(claim.text, url),
     when |-> IF WhenTruthy(claim.when) /\ claim.when.kind = "dict"
              THEN normalize_when(claim.when, Stamp) ELSE claim.when,
     confidence |-> normalize_confidence(claim.confidence)]

normalize_claims(claims, url) == [i \in 1..Len(claims) |-> normalize_claim(claims[i], url)]

\* --- _passes_claim_premises -------------------------------------------
ValidModalities == {"official_fact", "reported_claim", "allegation", "opinion"}
\* A hedging list that lacks its first word.
hedging_WithoutReportedly == <<"allegedly", "might have", "may have", "rumored", "unconfirmed">>
hedging == <<"reportedly", "allegedly", "might have", "may have", "rumored", "unconfirmed">>
criminal_terms == <<"murdered", "killed", "assassinated", "raped", "trafficked", "kidnapped">>
ConfidenceFloor == 650

AnyIn(words, text) == \E i \in 1..Len(words) : Contains(text, words[i])

Digits == <<"0","1","2","3","4","5","6","7","8","9">>
\* f"{confidence:.2f}" for a confidence below 1 that is a multiple of 0.01
Fmt2(c) == "0." \o Digits[(c \div 100) + 1] \o Digits[((c \div 10) % 10) + 1]

Admit == [raised |-> FALSE, admitted |-> TRUE, reason |-> ""]
Reject(reason) == [raised |-> FALSE, admitted |-> FALSE, reason |-> reason]
Raise == [raised |-> TRUE, admitted |-> FALSE, reason |-> "AttributeError"]

\* Check 1: `not who or all(":" not in w for w in who)`
NoNamedSource(who) == who = <<>> \/ \A i \in 1..Len(who) : ~Contains(who[i], ":")

passes_claim_premises(claim) ==
    LET text == Lower(claim.text)
        who == claim.who
        when == claim.when
        modality == claim.modality
        evidence == claim.evidence_references
        confidence == claim.confidence
    IN  IF NoNamedSource(who)
        THEN Reject("Attribution: No named source (WHO)")
        ELSE IF WhenTruthy(when) /\ when.kind = "str"
        THEN Raise                               \* 'str' object has no attribute 'get'
        ELSE IF ~WhenTruthy(when) \/ when.date = None \/ when.date = ""
        THEN Reject("Temporal: Missing event time (WHEN)")
        ELSE IF modality = "" \/ modality \notin ValidModalities
        THEN Reject("Modality: Not specified or invalid")
        ELSE IF Len(evidence) = 0
        THEN Reject("Evidence: No artifacts referenced")
        ELSE IF AnyIn(hedging, text)
        THEN Reject("Hedging: Vague language without proper attribution")
        ELSE IF AnyIn(criminal_terms, text) /\ modality # "official_fact"
        THEN Reject("Controversy: Criminal implication requires official_fact modality")
        ELSE IF confidence < ConfidenceFloor
        THEN Reject("Confidence: Below threshold (" \o Fmt2(confidence) \o " < 0.65)")
        ELSE Admit

\* --- _extract_entities_from_claims --------------------------------------
RECURSIVE StripLeft(_)
StripLeft(s) ==
    IF Len(s) > 0 /\ IsSpace(SubSeq(s, 1, 1)) THEN StripLeft(SubSeq(s, 2, Len(s))) ELSE s
RECURSIVE StripRight(_)
StripRight(s) ==
    IF Len(s) > 0 /\ IsSpace(SubSeq(s, Len(s), Len(s)))
    THEN StripRight(SubSeq(s, 1, Len(s) - 1)) ELSE s
Strip(s) == StripRight(StripLeft(s))              \* str.strip()

\* where.split(':', 1)[-1] if ':' in where else where
AfterFirstColon(s) ==
    IF Contains(s, ":")
    THEN LET k == CHOOSE i \in 1..Len(s) :
                    /\ SubSeq(s, i, i) = ":"
                    /\ \A j \in 1..(i - 1) : SubSeq(s, j, j) # ":"
         IN  SubSeq(s, k + 1, Len(s))
    ELSE s

SeqRange(q) == {q[i] : i \in 1..Len(q)}

ClaimPeople(claim) ==
    {SubSeq(w, 8, Len(w)) : w \in {x \in SeqRange(claim.who) : StartsWith(x, "PERSON:")}}
ClaimOrganizations(claim) ==
    {SubSeq(w, 5, Len(w)) :
        w \in {x \in SeqRange(claim.who) : ~StartsWith(x, "PERSON:") /\ StartsWith(x, "ORG:")}}
ClaimLocations(claim) == {Strip(AfterFirstColon(w)) : w \in SeqRange(claim.where)}
ClaimTimes(claim) ==
    IF claim.when.kind = "dict"
    THEN {claim.when[f] : f \in {"date", "event_time", "temporal_context"}} \ {None, ""}
    ELSE {}

extract_entities_from_claims(claims) ==
    [people         |-> UNION {ClaimPeople(c) : c \in SeqRange(claims)},
     organizations  |-> UNION {ClaimOrganizations(c) : c \in SeqRange(claims)},
     locations      |-> UNION {ClaimLocations(c) : c \in SeqRange(claims)},
     time_references |-> UNION {ClaimTimes(c) : c \in SeqRange(claims)}]

NoEntities ==
    [people |-> {}, organizations |-> {}, locations |-> {}, time_references |-> {}]

empty_extraction(reason) ==
    [claims |-> <<>>, excluded_claims |-> <<>>, entities |-> NoEntities,
     gist |-> "No content extracted", notes_unsupported |-> <<reason>>]

\* --- extract_enhanced_claims -------------------------------------------
WithReason(claim, reason) ==
    [f \in DOMAIN claim \cup {"excluded_reason"} |->
        IF f = "excluded_reason" THEN reason ELSE claim[f]]

\* the claims the gatekeeper loop puts in admitted_claims
AdmittedOf(all_claims) ==
    LET Keep(c) == passes_claim_premises(c).admitted IN SelectSeq(all_claims, Keep)

\* the claims it puts in excluded_claims, each with its excluded_reason
ExcludedOf(all_claims) ==
    LET Drop(c) == ~passes_claim_premises(c).admitted
        ex == SelectSeq(all_claims, Drop)
    IN  [i \in 1..Len(ex) |-> WithReason(ex[i], passes_claim_premises(ex[i]).reason)]

\* A variant whose error answer carries no note.
claims_response_Silent(llm, url) ==
    IF llm.call = "error"
    THEN [claims |-> <<>>, gist |-> "Extraction failed", notes_unsupported |-> <<>>]
    ELSE [claims |-> normalize_claims(llm.claims, url), gist |-> "summary",
          notes_unsupported |-> <<>>]

\* what _extract_atomic_claims_with_ner returns for the model's answer
claims_response(llm, url) ==
    IF llm.call = "error"
    THEN [claims |-> <<>>, gist |-> "Extraction failed",
          notes_unsupported |-> <<"Error: upstream">>]
    ELSE [claims |-> normalize_claims(llm.claims, url), gist |-> "summary",
          notes_unsupported |-> <<>>]

\* A variant that hands every candidate to _extract_entities_from_claims.
EntityClaims_All(admitted, excluded) == admitted \o excluded
\* The claims handed to _extract_entities_from_claims: the admitted ones.
EntityClaims(admitted, excluded) == admitted

extract_enhanced_claims(llm, url) ==
    IF ~llm.has_page_text
    THEN empty_extraction("No page content provided")
    ELSE LET resp == claims_response(llm, url)
             all_claims == resp.claims
         IN  IF \E i \in 1..Len(all_claims) : passes_claim_premises(all_claims[i]).raised
             THEN empty_extraction("Extraction failed: AttributeError")
             ELSE LET admitted == AdmittedOf(all_claims)
                  IN  [claims |-> admitted,
                       excluded_claims |-> ExcludedOf(all_claims),
                       entities |-> extract_entities_from_claims(
                                       EntityClaims(admitted, ExcludedOf(all_claims))),
                       gist |-> resp.gist,
                       notes_unsupported |-> resp.notes_unsupported]

(***************************************************************************)
(* Specification of the claim extractor                                    *)
(***************************************************************************)
RECURSIVE SeqsUpTo(_, _)
SeqsUpTo(S, n) ==
    IF n = 0 THEN {<<>>}
    ELSE LET shorter == SeqsUpTo(S, n - 1)
         IN  shorter \cup {Append(q, x) : q \in shorter, x \in S}

InsertAt(q, k, x) == SubSeq(q, 1, k - 1) \o <<x>> \o SubSeq(q, k, Len(q))

\* the answers of the generative model: any candidate claim, at any place
\* among up to max_claims - 1 companion claims; or no claim at all
Batches(max_claims) ==
    {<<>>} \cup
    UNION {{InsertAt(q, k, c) : c \in Candidates, k \in 1..(Len(q) + 1)} :
              q \in SeqsUpTo(Companions, max_claims - 1)}

LlmAnswers(max_claims) ==
    {[has_page_text |-> TRUE, call |-> "ok", claims |-> b] : b \in Batches(max_claims)}
    \cup {[has_page_text |-> TRUE, call |-> "error", claims |-> <<>>],
          [has_page_text |-> FALSE, call |-> "ok", claims |-> <<>>]}

TaskIdle == tasks = [t \in TaskIds |-> NoDoc] /\ published = {} /\ response = NoResponse

\* ce_llm ranges over LlmAnswers(MaxClaims): the answers with companions are
\* enumerated one by one, the others are those of LlmAnswers(1).
InitClaims ==
    /\ ce_pc = "ready"
    /\ \/ \E q \in SeqsUpTo(Companions, MaxClaims - 1), c \in Candidates :
             \E k \in 1..(Len(q) + 1) :
                ce_llm = [has_page_text |-> TRUE, call |-> "ok",
                          claims |-> InsertAt(q, k, c)]
       \/ ce_llm \in LlmAnswers(1)
    /\ ce_out = None
    /\ TaskIdle /\ CvIdle /\ ErIdle /\ PlIdle /\ TcIdle /\ SubIdle /\ RtIdle /\ KbIdle

ExtractEnhancedClaims ==
    /\ ce_pc = "ready"
    /\ ce_out' = extract_enhanced_claims(ce_llm, SourceUrl)
    /\ ce_pc' = "done"
    /\ UNCHANGED <<ce_llm, taskVars, cvVars, erVars, plVars, tcVars, subVars, rtVars, kbVars>>

NextClaims == ExtractEnhancedClaims

SpecClaims == InitClaims /\ [][NextClaims]_vars

(***************************************************************************)
(* Content validator (services/content_validator.py)                       *)
(***************************************************************************)
\* --- text primitives ----------------------------------------------------
\* End of the longest run of characters satisfying P that starts at i
\* (i - 1 when the character at i does not satisfy P).
NonSpace(c) == c # "" /\ ~IsSpace(c)

InClass(c, class) ==
    IF class = "\\s" THEN IsSpace(c)
    ELSE IF class = "[a-z]" THEN IsLower(c)
    ELSE NonSpace(c)                              \* "\\S"

RunEnd(s, i, class) ==
    IF i > Len(s) THEN i - 1
    ELSE CHOOSE j \in (i - 1)..Len(s) :
            /\ \A k \in i..j : InClass(Ch(s, k), class)
            /\ j = Len(s) \/ ~InClass(Ch(s, j + 1), class)

SpaceEnd(s, i) == RunEnd(s, i, "\\s")             \* greedy \s*

\* The literal lit stands at position p of s.
At(s, p, lit) ==
    /\ p >= 1
    /\ p + Len(lit) - 1 <= Len(s)
    /\ SubSeq(s, p, p + Len(lit) - 1) = lit

WordStarts(s) == {i \in 1..Len(s) : NonSpace(Ch(s, i)) /\ (i = 1 \/ IsSpace(Ch(s, i - 1)))}
WordCount(s) == Cardinality(WordStarts(s))        \* len(s.split())
Words(s) == {SubSeq(s, i, RunEnd(s, i, "\\S")) : i \in WordStarts(s)}

RECURSIVE Without(_, _)
Without(s, chars) ==                              \* chained str.replace(c, "")
    IF Len(s) = 0 THEN ""
    ELSE (IF SubSeq(s, 1, 1) \in chars THEN "" ELSE SubSeq(s, 1, 1))
         \o Without(SubSeq(s, 2, Len(s)), chars)

RECURSIVE SplitLines(_)
SplitLines(s) ==                                  \* s.split('\n')
    IF Contains(s, "\n")
    THEN LET k == CHOOSE i \in 1..Len(s) :
                     Ch(s, i) = "\n" /\ \A j \in 1..(i - 1) : Ch(s, j) # "\n"
         IN  <<SubSeq(s, 1, k - 1)>> \o SplitLines(SubSeq(s, k + 1, Len(s)))
    ELSE <<s>>

RECURSIVE Join(_, _)
Join(sep, parts) ==                               \* sep.join(parts)
    IF Len(parts) = 0 THEN ""
    ELSE IF Len(parts) = 1 THEN parts[1]
    ELSE parts[1] \o sep \o Join(sep, Tail(parts))

\* --- _is_valid_author_name ----------------------------------------------
exclude_words == <<"sign", "subscribe", "click", "read", "more", "here", "now",
                   "continue", "share", "print", "save", "follow", "latest",
                   "shutdown", "update", "breaking", "live", "today", "news">>
NameSuffixes == {".", "Jr", "Sr", "Jr.", "Sr.", "II", "III"}

is_valid_author_name(name) ==
    IF Len(name) < 4 THEN FALSE
    ELSE IF \E name_lower \in {Lower(name)} :
               \E k \in 1..Len(exclude_words) : Contains(name_lower, exclude_words[k])
    THEN FALSE
    ELSE IF WordCount(name) < 2 THEN FALSE
    ELSE \A part \in Words(name) :
            \/ part \in NameSuffixes
            \/ \E clean_part \in {Without(part, {"'", "-", "."})} :
                   /\ Len(clean_part) >= 2
                   /\ \A i \in 1..Len(clean_part) : IsAlpha(Ch(clean_part, i))

\* --- the regular expressions of _extract_author_fallback ----------------
\* [A-Z][a-z]+ at position i: the position of its last letter, 0 if none.
NameEnd(s, i) ==
    IF IsUpper(Ch(s, i)) /\ IsLower(Ch(s, i + 1)) THEN RunEnd(s, i + 1, "[a-z]") ELSE 0

\* Greedy (?:\s+[A-Z][a-z]+)* after a name ending at e: end of the last name.
RECURSIVE MoreNames(_, _)
MoreNames(s, e) ==
    LET w == SpaceEnd(s, e + 1)
        n == NameEnd(s, w + 1)
    IN  IF w > e /\ n > 0 THEN MoreNames(s, n) ELSE e

\* [A-Z]\.? at position i: the position of its last character.
InitialEnd(s, i) == IF Ch(s, i + 1) = "." THEN i + 1 ELSE i

\* \s+[A-Z]\.?\s*[A-Z][a-z]+ after position e (pattern 1): its end, 0 if none.
InitialledNameEnd(s, e) ==
    LET w == SpaceEnd(s, e + 1)
    IN  IF w > e /\ IsUpper(Ch(s, w + 1))
        THEN NameEnd(s, SpaceEnd(s, InitialEnd(s, w + 1) + 1) + 1)
        ELSE 0

RECURSIVE MoreInitialledNames(_, _)
MoreInitialledNames(s, e) ==
    LET n == InitialledNameEnd(s, e)
    IN  IF n > 0 THEN MoreInitialledNames(s, n) ELSE e

\* \s*[\r\n]+\s*(?:Published|Posted|By\s*line): after position e.
DatelineFollows(s, e) ==
    LET w == SpaceEnd(s, e + 1)
    IN  /\ \E k \in (e + 1)..w : Ch(s, k) \in {"\r", "\n"}
        /\ \/ At(s, w + 1, "Published:")
           \/ At(s, w + 1, "Posted:")
           \/ At(s, w + 1, "By") /\ At(s, SpaceEnd(s, w + 3) + 1, "line:")

NoMatch == <<0, 0>>

\* pattern1 tried at position p: <<start, end>> of group 1, or NoMatch.
pattern1(s, p) ==
    LET e1 == NameEnd(s, p)
        e  == IF e1 > 0 THEN MoreInitialledNames(s, e1) ELSE 0
    IN  IF e1 > 0 /\ e > e1 /\ DatelineFollows(s, e) THEN <<p, e>> ELSE NoMatch

\* [A-Z][a-z]+(?:\s+[A-Z]\.?\s*)?(?:\s+[A-Z][a-z]+)+ at position i (one
\* author of pattern 2): its end, 0 if none.
PersonEnd(s, i) ==
    LET e1 == NameEnd(s, i)
        w  == SpaceEnd(s, e1 + 1)
        k  == InitialEnd(s, w + 1)
        w2 == SpaceEnd(s, k + 1)
    IN  IF e1 = 0 \/ w = e1 THEN 0
        ELSE IF NameEnd(s, w + 1) > 0 THEN MoreNames(s, NameEnd(s, w + 1))
        ELSE IF IsUpper(Ch(s, w + 1)) /\ w2 > k /\ NameEnd(s, w2 + 1) > 0
             THEN MoreNames(s, NameEnd(s, w2 + 1))
        ELSE 0

\* Greedy (?:,\s+<author>)* after an author ending at e.
RECURSIVE MorePersons(_, _)
MorePersons(s, e) ==
    LET w == SpaceEnd(s, e + 2)
        n == PersonEnd(s, w + 1)
    IN  IF Ch(s, e + 1) = "," /\ w > e + 1 /\ n > 0 THEN MorePersons(s, n) ELSE e

\* pattern2 tried at position p: (?:^|\n)By\s+(...), re.MULTILINE.
pattern2(s, p) ==
    LET b == IF Ch(s, p) = "\n" THEN p + 1 ELSE p  \* where "By" must stand
        w == SpaceEnd(s, b + 2)
        e == PersonEnd(s, w + 1)
    IN  IF /\ Ch(s, p) = "\n" \/ p = 1 \/ Ch(s, p - 1) = "\n"
           /\ At(s, b, "By")
           /\ w > b + 1
           /\ e > 0
        THEN <<w + 1, MorePersons(s, e)>>
        ELSE NoMatch

\* pattern3 tried at position p: (?:Written\s+by|Author):\s*(...).
pattern3(s, p) ==
    LET q  == IF At(s, p, "Author:") THEN p + 6
              ELSE IF At(s, p, "Written") /\ SpaceEnd(s, p + 7) > p + 6
                      /\ At(s, SpaceEnd(s, p + 7) + 1, "by:")
                   THEN SpaceEnd(s, p + 7) + 3
              ELSE 0
        g  == SpaceEnd(s, q + 1) + 1
        e1 == NameEnd(s, g)
    IN  IF q > 0 /\ e1 > 0 /\ MoreNames(s, e1) > e1
        THEN <<g, MoreNames(s, e1)>>
        ELSE NoMatch

\* re.search(pattern, content) then match.group(1).strip(): the leftmost
\* position where the pattern matches; "" when there is no match.
PatternAt(pattern, s, p) ==
    IF pattern = 1 THEN pattern1(s, p)
    ELSE IF pattern = 2 THEN pattern2(s, p)
    ELSE pattern3(s, p)

Search(pattern, content) ==
    LET hits == {p \in 1..Len(content) : PatternAt(pattern, content, p) # NoMatch}
    IN  IF hits = {} THEN ""
        ELSE LET p == CHOOSE x \in hits : \A y \in hits : x <= y
                 m == PatternAt(pattern, content, p)
             IN  Strip(SubSeq(content, m[1], m[2]))

\* Pattern 4 on the stripped lines of the content: consecutive lines that
\* are names, starting among the first 100 lines.
ConsecutiveNames(lines) ==
    LET IsName(i) == i <= Len(lines) /\ is_valid_author_name(lines[i])
        starts == {i \in 1..(IF Len(lines) < 100 THEN Len(lines) ELSE 100) :
                        IsName(i) /\ IsName(i + 1)}
    IN  IF starts = {} THEN ""
        ELSE LET i == CHOOSE x \in starts : \A y \in starts : x <= y
                 j == CHOOSE y \in (i + 1)..(i + 4) :
                          /\ \A k \in i..y : IsName(k)
                          /\ y = i + 4 \/ ~IsName(y + 1)
             IN  Join(", ", [k \in 1..(j - i + 1) |-> lines[i + k - 1]])

pattern4(content) ==
    CHOOSE authors \in
        {ConsecutiveNames([i \in 1..Len(lines) |-> Strip(lines[i])]) :
            lines \in {SplitLines(content)}} : TRUE

\* The first of the three regular-expression matches that is a valid name,
\* else what pattern 4 gives.
FirstAccepted(match1, match2, match3, multi) ==
    IF match1 # "" /\ is_valid_author_name(match1) THEN match1
    ELSE IF match2 # "" /\ is_valid_author_name(match2) THEN match2
    ELSE IF match3 # "" /\ is_valid_author_name(match3) THEN match3
    ELSE multi

extract_author_fallback(content) ==
    CHOOSE author \in
        {FirstAccepted(match1, match2, match3, multi) :
            match1 \in {Search(1, content)},
            match2 \in {Search(2, content)},
            match3 \in {Search(3, content)},
            multi  \in {pattern4(content)}} : TRUE

\* --- _verify_and_add_flags ----------------------------------------------
ShortContentWords == 300
EmptyContentWords == 50
\* A fast path for texts of fewer than ten characters only.
MinContentChars_Ten == 2 * 5
MinContentChars   == 50

paywall_patterns ==
    <<"subscribe", "subscription", "sign in to read", "sign in to continue",
      "become a member", "premium content", "member-only", "subscribers only",
      "unlock this article", "create a free account", "register to read",
      "see subscription options", "enjoy unlimited access", "subscriber exclusive">>

\* A cleaned_metadata dict, reduced to the one key the validator reads.
\* Missing: the key is not in the dict; None: the key holds null.
Missing == "<missing>"
EmptyDict == [author |-> Missing]

\* A pass that adds a flag only when the upstream model proposed none.
AddFlag_OnlyToEmpty(flags, flag, cond) ==
    IF cond /\ flags = <<>> THEN Append(flags, flag) ELSE flags

AddFlag(flags, flag, cond) ==
    IF cond /\ flag \notin SeqRange(flags) THEN Append(flags, flag) ELSE flags

HasPaywall(original_content, cleaned_content) ==
    \E content_lower \in {Lower(original_content \o " " \o cleaned_content)} :
        \E k \in 1..Len(paywall_patterns) : Contains(content_lower, paywall_patterns[k])

HasAuthor(cleaned_metadata) ==
    cleaned_metadata.author \notin {Missing, None, "", "N/A", "null"}

\* Checks 1 to 4 on the values of the locals: the flags and the
\* cleaned_metadata dict as the call leaves it.  fallback_author is "" when
\* the fallback was not tried or found nothing.
CheckedFlags(llm_flags, cleaned_metadata, word_count, has_paywall, fallback_author) ==
    [flags |->
        AddFlag(
            AddFlag(
                AddFlag(
                    AddFlag(llm_flags, "short_content", word_count < ShortContentWords),
                    "paywall_detected", has_paywall),
                "no_author", ~HasAuthor(cleaned_metadata) /\ fallback_author = ""),
            "empty_content", word_count < EmptyContentWords),
     cleaned_metadata |->
        IF ~HasAuthor(cleaned_metadata) /\ fallback_author # ""
        THEN [cleaned_metadata EXCEPT !.author = fallback_author]
        ELSE cleaned_metadata]

verify_and_add_flags(llm_flags, cleaned_content, original_content, cleaned_metadata) ==
    CHOOSE checked \in
        {CheckedFlags(llm_flags, cleaned_metadata, word_count, has_paywall, fallback_author) :
            word_count  \in {WordCount(cleaned_content)},
            has_paywall \in {HasPaywall(original_content, cleaned_content)},
            fallback_author \in {IF HasAuthor(cleaned_metadata) THEN ""
                                 ELSE extract_author_fallback(original_content)}} : TRUE

\* --- validate_extraction ------------------------------------------------
ValidationResult(is_valid, reason, cleaned_data, cleaned_content, flags) ==
    [is_valid |-> is_valid, reason |-> reason, cleaned_data |-> cleaned_data,
     cleaned_content |-> cleaned_content, flags |-> flags]

\* What str(e) gives for each way the try block can fail.
ErrorText(upstream) ==
    IF upstream.call = "error" THEN "Connection error."
    ELSE IF upstream.call = "unparsable" THEN "Expecting value: line 1 column 1 (char 0)"
    ELSE IF upstream.call = "not_object" THEN "'list' object has no attribute 'get'"
    ELSE "'NoneType' object has no attribute 'get'"

\* result_json.get("is_valid", True): whatever the answer holds under the
\* key, True when the key is absent.  JSON true/false/null are written
\* "True"/"False"/"None".
Absentkey == "<absent>"
GetIsValid(upstream) ==
    IF upstream.is_valid = Absentkey THEN "True" ELSE upstream.is_valid

\* A try block that guards the call and the parse only.
try_block_raises_BeforeFlags(upstream) == upstream.call # "ok"

\* The try block raises: the call fails ("error"), json.loads fails
\* ("unparsable"), the parsed answer is not an object so that result_json.get
\* fails ("not_object"), or cleaned_metadata is null so that
\* cleaned_metadata.get fails in _verify_and_add_flags.
try_block_raises(upstream) ==
    upstream.call # "ok" \/ upstream.cleaned_metadata.kind = "null"

validate_extraction(extraction_result, upstream) ==
    IF Len(extraction_result.content_text) = 0
       \/ Len(Strip(extraction_result.content_text)) < MinContentChars
    THEN ValidationResult("True", "Content too short or empty", EmptyDict, "",
                          <<"short_content", "empty_content">>)
    ELSE IF try_block_raises(upstream)
    THEN ValidationResult("True",
                          "Validation skipped due to error: " \o ErrorText(upstream),
                          EmptyDict, "", <<"validation_error">>)
    ELSE CHOOSE result \in
            {ValidationResult(
                 GetIsValid(upstream),
                 upstream.reason,
                 \* result_json.get("cleaned_metadata", {}) is evaluated again:
                 \* a dict in the answer is the one the pass wrote to, the
                 \* default {} is a fresh one.
                 IF upstream.cleaned_metadata.kind = "absent"
                 THEN EmptyDict ELSE checked.cleaned_metadata,
                 upstream.cleaned_content,
                 checked.flags) :
             checked \in {verify_and_add_flags(
                              upstream.flags, upstream.cleaned_content,
                              extraction_result.content_text,
                              IF upstream.cleaned_metadata.kind = "absent"
                              THEN EmptyDict
                              ELSE [author |-> upstream.cleaned_metadata.author])}} : TRUE

\* --- inputs -------------------------------------------------------------
\* n copies of the word w joined by single blanks.
RECURSIVE Repeat(_, _)
Repeat(w, n) ==
    IF n = 0 THEN ""
    ELSE IF n = 1 THEN w
    ELSE Repeat(w, n \div 2) \o " " \o Repeat(w, n - (n \div 2))

Body == Repeat("story", 10)                       \* 59 characters of article text

ContentTexts ==
    {"",                                          \* nothing extracted
     "Too short.",
     Repeat("", 60),                              \* blanks only
     Repeat("word", 30),                          \* 30 words, 149 characters
     "Subscribe to continue reading. " \o Body,
     "By Jane Doe\n" \o Body,
     "By Breaking News\n" \o Body,
     "Jane A. Doe\nPublished: 7:00pm\n" \o Body,
     "Staff report. Author: Jane Doe " \o Body,
     "Jane Doe\nJohn Roe\n\n" \o Body}

CleanedContents ==
    {"",
     "Subscribe to continue reading",
     Repeat("a", EmptyContentWords - 1),
     Repeat("a", EmptyContentWords),
     Repeat("a", ShortContentWords - 1),
     Repeat("a", ShortContentWords)}

LlmFlags == {<<>>, <<"short_content", "no_author">>, <<"navigation_heavy">>}

CleanedMetadatas ==
    {[kind |-> "absent", author |-> Missing],     \* no cleaned_metadata key
     [kind |-> "null",   author |-> Missing],     \* "cleaned_metadata": null
     [kind |-> "dict",   author |-> Missing],
     [kind |-> "dict",   author |-> "N/A"],
     [kind |-> "dict",   author |-> "Staff Writer"]}

UpstreamAnswers ==
    [call : {"ok"}, is_valid : {"True", "False", "None", Absentkey},
     reason : {"assessed"}, flags : LlmFlags,
     cleaned_content : CleanedContents, cleaned_metadata : CleanedMetadatas]
    \cup
    [call : {"error", "unparsable", "not_object"}, is_valid : {Absentkey}, reason : {""},
     flags : {<<>>}, cleaned_content : {""},
     cleaned_metadata : {[kind |-> "absent", author |-> Missing]}]

InitValidator ==
    /\ cv_pc = "ready"
    /\ cv_in \in [extraction_result : [content_text : ContentTexts],
                  upstream : UpstreamAnswers]
    /\ cv_out = None
    /\ TaskIdle /\ CeIdle /\ ErIdle /\ PlIdle /\ TcIdle /\ SubIdle /\ RtIdle /\ KbIdle

ValidateExtraction ==
    /\ cv_pc = "ready"
    /\ cv_out' = validate_extraction(cv_in.extraction_result, cv_in.upstream)
    /\ cv_pc' = "done"
    /\ UNCHANGED <<cv_in, taskVars, ceVars, erVars, plVars, tcVars, subVars, rtVars, kbVars>>

NextValidator == ValidateExtraction

SpecValidator == InitValidator /\ [][NextValidator]_vars

(***************************************************************************)
(* Entity resolver: deduplication (services/entity_resolver.py)            *)
(***************************************************************************)
MaxMentions == 3        \* raw mentions handed to one _deduplicate_entities call

Max(x, y) == IF x >= y THEN x ELSE y

\* --- rapidfuzz fuzz.ratio -----------------------------------------------
\* fuzz.ratio is the normalised InDel similarity in percent:
\* 100 * 2 * LCS(s1, s2) / (len(s1) + len(s2)), 100 for two empty strings.
\* One row of the longest-common-subsequence table: c is the character of s1
\* the row belongs to, prev the row above, cur the cells computed so far
\* (cell j of a row is kept at position j + 1).
RECURSIVE LcsRow(_, _, _, _)
LcsRow(c, s2, prev, cur) ==
    IF Len(cur) = Len(s2) + 1 THEN cur
    ELSE CHOOSE row \in
             {LcsRow(c, s2, prev, next) :
                 next \in {Append(cur, IF Ch(s2, Len(cur)) = c
                                       THEN prev[Len(cur)] + 1
                                       ELSE Max(prev[Len(cur) + 1], cur[Len(cur)]))}} : TRUE

RECURSIVE LcsRows(_, _, _, _)
LcsRows(s1, s2, i, prev) ==
    IF i > Len(s1) THEN prev
    ELSE CHOOSE last \in
             {LcsRows(s1, s2, i + 1, row) :
                 row \in {LcsRow(Ch(s1, i), s2, prev, <<0>>)}} : TRUE

LCS(s1, s2) == LcsRows(s1, s2, 1, [j \in 1..(Len(s2) + 1) |-> 0])[Len(s2) + 1]

\* The ratio rounded down to a whole percent; the comparison with the whole
\* threshold is the same as on the exact value.
fuzz_ratio(s1, s2) ==
    IF Len(s1) + Len(s2) = 0 THEN 100
    ELSE (200 * LCS(s1, s2)) \div (Len(s1) + Len(s2))

SimilarityThreshold == 85

\* similarity >= 85 on the lower-cased texts
Similar(text1, text2) ==
    \E a \in {Lower(text1)}, b \in {Lower(text2)} : fuzz_ratio(a, b) >= SimilarityThreshold

\* --- _choose_canonical_name, _generate_entity_id ------------------------
\* sorted(mentions, key=len, reverse=True)[0]: the sort is stable, so the
\* first of the longest mentions.
choose_canonical_name(mentions) ==
    IF Len(mentions) = 0 THEN ""
    ELSE mentions[CHOOSE i \in 1..Len(mentions) :
                      /\ \A j \in 1..Len(mentions) : Len(mentions[j]) <= Len(mentions[i])
                      /\ \A j \in 1..(i - 1) : Len(mentions[j]) < Len(mentions[i])]

\* f"{entity_type.lower()}_{md5(f'{entity_type}:{normalized}')[:8]}"; the
\* digest is kept as the string it is taken of (distinct strings, distinct
\* digests).
generate_entity_id(name, entity_type) ==
    [prefix |-> Lower(entity_type),
     digest_of |-> entity_type \o ":" \o Strip(Lower(name))]

\* --- _deduplicate_entities ----------------------------------------------
\* by_type[label]: the mentions of one label, in input order.
RECURSIVE ByType(_, _)
ByType(entities_raw, label) ==
    IF Len(entities_raw) = 0 THEN <<>>
    ELSE (IF Head(entities_raw).label = label THEN <<Head(entities_raw)>> ELSE <<>>)
         \o ByType(Tail(entities_raw), label)

\* The texts of the mentions at the positions in js, in list order.
RECURSIVE TextsAt(_, _)
TextsAt(entities, js) ==
    IF js = {} THEN <<>>
    ELSE LET j == CHOOSE x \in js : \A y \in js : x <= y
         IN  <<entities[j].text>> \o TextsAt(entities, js \ {j})

ResolvedEntity(entity_type, ent1, mentions) ==
    [canonical_name |-> choose_canonical_name(mentions),
     canonical_id   |-> generate_entity_id(choose_canonical_name(mentions), entity_type),
     entity_type    |-> entity_type,
     mentions       |-> SeqRange(mentions),                  \* list(set(mentions))
     confidence     |-> IF Len(mentions) > 1 THEN 100 ELSE 70,  \* 1.0 / 0.7, in percent
     context        |-> ent1.context]

\* The outer loop from index i on, with the indices used so far and the
\* canonical entities built so far.
RECURSIVE DedupFrom(_, _, _, _, _)
DedupFrom(entity_type, entities, i, used, canonical) ==
    IF i > Len(entities) THEN canonical
    ELSE IF i \in used THEN DedupFrom(entity_type, entities, i + 1, used, canonical)
    ELSE CHOOSE rest \in
            {DedupFrom(entity_type, entities, i + 1, used \cup {i} \cup js,
                       Append(canonical,
                              ResolvedEntity(entity_type, entities[i],
                                             <<entities[i].text>> \o TextsAt(entities, js)))) :
                js \in {{j \in (i + 1)..Len(entities) :
                            j \notin used /\ Similar(entities[i].text, entities[j].text)}}} : TRUE

Labels == {"PERSON", "ORG"}

\* canonical_entities; a label without mentions has no key, written <<>>.
deduplicate_entities(entities_raw) ==
    [label \in Labels |-> DedupFrom(label, ByType(entities_raw, label), 1, {}, <<>>)]

\* --- inputs -------------------------------------------------------------
Mention(text, label, context) == [text |-> text, label |-> label, context |-> context]

RawMentions ==
    {Mention("Jon Smith", "PERSON", ""), Mention("John Smith", "PERSON", ""),
     Mention("John Smyth", "PERSON", ""), Mention("JOHN SMITH", "PERSON", ""),
     Mention("Newsom", "PERSON", ""),
     Mention("Gavin Newsom", "PERSON", "Governor of California"),
     Mention("John Smith", "ORG", ""), Mention("Jon Smith", "ORG", "")}

InitResolver ==
    /\ er_pc = "ready"
    /\ er_in \in SeqsUpTo(RawMentions, MaxMentions)
    /\ er_out = None
    /\ TaskIdle /\ CeIdle /\ CvIdle /\ PlIdle /\ TcIdle /\ SubIdle /\ RtIdle /\ KbIdle

DeduplicateEntities ==
    /\ er_pc = "ready"
    /\ er_out' = deduplicate_entities(er_in)
    /\ er_pc' = "done"
    /\ UNCHANGED <<er_in, taskVars, ceVars, cvVars, plVars, tcVars, subVars, rtVars, kbVars>>

NextResolver == DeduplicateEntities

SpecResolver == InitResolver /\ [][NextResolver]_vars

(***************************************************************************)
(* Claims about the claim extractor                                        *)
(***************************************************************************)
CeDone == ce_pc = "done"

\* the policy of the gatekeeper, stated on a claim's fields
HasPersonOrOrgPrefix(who) ==
    \E i \in 1..Len(who) : StartsWith(who[i], "PERSON:") \/ StartsWith(who[i], "ORG:")
\* a who entry that starts with one of the entity types the prompt names
HasTypePrefix(who) ==
    \E i \in 1..Len(who) :
        \E ty \in {"PERSON:", "ORG:", "GPE:", "LOCATION:"} : StartsWith(who[i], ty)
HasEventDate(when) == when.kind = "dict" /\ when.date \notin {None, ""}
HasHedgeWord(text) ==
    \E h \in {"reportedly", "allegedly", "might have", "may have", "rumored", "unconfirmed"} :
        Contains(Lower(text), h)
HasCriminalTerm(text) ==
    \E h \in {"murdered", "killed", "assassinated", "raped", "trafficked", "kidnapped"} :
        Contains(Lower(text), h)

MeetsPolicy(c) ==
    /\ HasPersonOrOrgPrefix(c.who)
    /\ HasEventDate(c.when)
    /\ c.modality \in {"official_fact", "reported_claim", "allegation", "opinion"}
    /\ Len(c.evidence_references) > 0
    /\ ~HasHedgeWord(c.text)
    /\ (HasCriminalTerm(c.text) => c.modality = "official_fact")
    /\ c.confidence >= 650

\* C4: every claim returned in `claims` passes all gatekeeper checks: a who
\* entry with a PERSON: or ORG: prefix, when.date present, an enumerated
\* modality, non-empty evidence_references, no hedge word, no criminal-act
\* term unless modality is official_fact, confidence at least 0.65.
C4_AdmittedMeetPolicy ==
    CeDone => \A i \in 1..Len(ce_out.claims) : MeetsPolicy(ce_out.claims[i])

\* C5: a candidate claim none of whose who entries carries a type prefix
\* (an empty who included) is in excluded_claims, not in claims, with an
\* excluded_reason containing "no named source".
C5_UnattributedAreExcluded ==
    CeDone =>
        \A i \in 1..Len(ce_llm.claims) :
            ~HasTypePrefix(ce_llm.claims[i].who) =>
                LET n == normalize_claim(ce_llm.claims[i], SourceUrl) IN
                /\ \E k \in 1..Len(ce_out.excluded_claims) :
                      /\ ce_out.excluded_claims[k].id = n.id
                      /\ ce_out.excluded_claims[k].who = n.who
                      /\ Contains(Lower(ce_out.excluded_claims[k].excluded_reason),
                                  "no named source")
                /\ \A k \in 1..Len(ce_out.claims) : ce_out.claims[k] # n

\* C6: every person, organization, location and time reference in the
\* aggregated entities is referenced by at least one admitted claim; excluded
\* claims contribute nothing.
C6_EntitiesFromAdmittedOnly ==
    CeDone =>
        LET adm == SeqRange(ce_out.claims) IN
        /\ \A p \in ce_out.entities.people :
              \E c \in adm : \E w \in SeqRange(c.who) : w = "PERSON:" \o p
        /\ \A o \in ce_out.entities.organizations :
              \E c \in adm : \E w \in SeqRange(c.who) : w = "ORG:" \o o
        /\ \A l \in ce_out.entities.locations :
              \E c \in adm : \E w \in SeqRange(c.where) : Contains(w, l)
        /\ \A x \in ce_out.entities.time_references :
              \E c \in adm : c.when.kind = "dict" /\
                  x \in {c.when.date, c.when.event_time, c.when.temporal_context}

\* C6 witness: a result with an admitted claim whose entities are aggregated
\* and an excluded claim naming a person who is not among them.
C6_Witness ==
    /\ CeDone
    /\ Len(ce_out.claims) > 0
    /\ ce_out.entities.people # {}
    /\ ce_out.entities.locations # {}
    /\ \E k \in 1..Len(ce_out.excluded_claims) :
          \E w \in SeqRange(ce_out.excluded_claims[k].who) :
              /\ StartsWith(w, "PERSON:")
              /\ SubSeq(w, 8, Len(w)) \notin ce_out.entities.people

\* C7: every candidate claim ends up in exactly one of claims and
\* excluded_claims; an excluded one keeps all its fields and carries a
\* non-empty excluded_reason; none is dropped, whatever the other candidates.
C7_EveryCandidateKept ==
    CeDone =>
        /\ Len(ce_out.claims) + Len(ce_out.excluded_claims) = Len(ce_llm.claims)
        /\ \A i \in 1..Len(ce_llm.claims) :
              LET n == normalize_claim(ce_llm.claims[i], SourceUrl)
                  inClaims == \E k \in 1..Len(ce_out.claims) : ce_out.claims[k] = n
                  inExcluded ==
                      \E k \in 1..Len(ce_out.excluded_claims) :
                          LET e == ce_out.excluded_claims[k] IN
                          /\ [f \in DOMAIN n |-> e[f]] = n
                          /\ e.excluded_reason # ""
              IN  inClaims # inExcluded

(***************************************************************************)
(* Claims about the Task Store                                             *)
(***************************************************************************)

\* C1: for every task, current_stage never moves backward in the order
\* pending < extraction < cleaning < resolution < semantization, whatever
\* Task Store operation is applied.
C1_StageNeverDecreases ==
    [][\A t \in TaskIds :
          (tasks[t].exists /\ tasks'[t].exists)
              => StageRank(tasks'[t].current_stage) >= StageRank(tasks[t].current_stage)]_vars

\* C2: a stage-completion write (update_task_status with a stage) whose stage
\* is at or behind the task's current stage is a no-op: current_stage, status
\* and the result fields of the task stay as they were.
C2_StaleAdvanceIsNoOp ==
    [][\A t \in TaskIds, s \in TaskStatusValues, st \in Stages :
          ( /\ tasks[t].exists
            /\ StageRank(st) <= StageRank(tasks[t].current_stage)
            /\ update_task_status(t, s, st) )
              => /\ tasks'[t].current_stage = tasks[t].current_stage
                 /\ tasks'[t].status = tasks[t].status
                 /\ tasks'[t].result = tasks[t].result
                 /\ tasks'[t].semantic_data = tasks[t].semantic_data]_vars

\* C3: a resolution request delivered for a task whose current_stage is
\* already past resolution is acknowledged successfully and leaves the task
\* record as it was.
C3_StaleDeliveryAcked ==
    [][\A t \in TaskIds :
          ( /\ tasks[t].exists
            /\ StageRank(tasks[t].current_stage) > StageRank("resolution")
            /\ resolve_task_entities(t) )
              => /\ response'.kind = "success"
                 /\ tasks'[t] = tasks[t]]_vars

\* C10: failed (or blocked) is terminal: once a task's status is failed or
\* blocked, no Task Store operation changes its status or current_stage.
C10_FailedIsTerminal ==
    [][\A t \in TaskIds :
          (tasks[t].exists /\ tasks[t].status \in {TaskStatus.FAILED, "blocked"})
              => /\ tasks'[t].status = tasks[t].status
                 /\ tasks'[t].current_stage = tasks[t].current_stage]_vars

(***************************************************************************)
(* Claims about the content validator                                      *)
(***************************************************************************)
CvDone == cv_pc = "done"

\* C8: for every input and every response of the upstream cleaning service
\* (a response that says is_valid=false and a failed call included), the
\* result of validate_extraction has is_valid = true.
C8_ValidateNeverRejects ==
    CvDone => cv_out.is_valid = "True"

(***************************************************************************)
(* Claims about the entity resolver                                        *)
(***************************************************************************)
ErDone == er_pc = "done"

\* The canonical ids of the entities of a label that list the text among
\* their mentions.
AssignedIds(label, text) ==
    {er_out[label][k].canonical_id :
        k \in {x \in 1..Len(er_out[label]) : text \in er_out[label][x].mentions}}

\* C9: any two mentions of one resolve call that have the same entity type
\* and a case-insensitive similarity of at least 85% belong to canonical
\* entities with the same canonical_id, whatever the other mentions and the
\* input order are.
C9_SimilarMentionsShareId ==
    ErDone =>
        \A i, j \in 1..Len(er_in) :
            ( /\ er_in[i].label = er_in[j].label
              /\ Similar(er_in[i].text, er_in[j].text) )
                => /\ AssignedIds(er_in[i].label, er_in[i].text)
                        = AssignedIds(er_in[j].label, er_in[j].text)
                   /\ Cardinality(AssignedIds(er_in[i].label, er_in[i].text)) = 1

(***************************************************************************)
(* Claims about stage sequencing and polling                               *)
(***************************************************************************)
LaterStages == {"cleaning", "resolution", "semantization"}
PrecedingStage(stage) == StageOrder[StageRank(stage) - 1]

\* The Task Store shows the stage before `stage` completed for task t.
PrecedingCompleted(t, stage) ==
    /\ tasks[t].exists
    /\ tasks[t].status = TaskStatus.COMPLETED
    /\ tasks[t].current_stage = PrecedingStage(stage)

C12_PollAlwaysSucceeds ==
    [][\A t \in TaskIds :
          (tasks[t].exists /\ get_task_status(t)) =>
              /\ response'.kind = "status"
              /\ response'.status = tasks[t].status
              /\ response'.current_stage = tasks[t].current_stage]_vars

(***************************************************************************)
(* Page loader: readability check (services/universal_web_extractor.py)    *)
(*                                                                         *)
(* A run starts when the page has rendered (pl_in holds the text and the   *)
(* HTML the browser returns, or the failure of the browser call) and ends  *)
(* with the dict _check_readability returns (pl_out).                      *)
(***************************************************************************)
MinPageChars == 100      \* has_content: len(page_text.strip()) > 100

captcha_indicators ==
    <<"verification required", "verify you are human", "checking your browser",
      "enable javascript", "access denied", "unusual activity">>

\* `page_text and len(page_text.strip()) > 100`
has_content(page_text) == Len(page_text) > 0 /\ Len(Strip(page_text)) > MinPageChars

IndicatorFound(indicator, text_lower, html_lower) ==
    Contains(text_lower, indicator) \/ Contains(html_lower, indicator)

Readability(is_readable, status, reason) ==
    [is_readable |-> is_readable, status |-> status, reason |-> reason]

\* A variant of the check that looks for the indicators before looking at the
\* content.
check_readability_IndicatorsFirst(page) ==
    IF page.raises THEN Readability(FALSE, "error", "exception")
    ELSE IF \E text_lower \in {Lower(page.page_text)}, html_lower \in {Lower(page.page_html)} :
               \E i \in 1..Len(captcha_indicators) :
                   IndicatorFound(captcha_indicators[i], text_lower, html_lower)
    THEN Readability(FALSE, "captcha_blocked", "CAPTCHA or bot detection")
    ELSE IF has_content(page.page_text) THEN Readability(TRUE, "readable", None)
    ELSE Readability(FALSE, "empty", "No text content found")

\* _check_readability.  page.raises stands for an exception of the browser
\* calls inside the try block.  The reason of a block names the first
\* indicator of the list found in the text or in the HTML.
check_readability(page) ==
    IF page.raises THEN Readability(FALSE, "error", "exception")
    ELSE CHOOSE r \in
      {LET found == {i \in 1..Len(captcha_indicators) :
                        IndicatorFound(captcha_indicators[i], text_lower, html_lower)}
       IN
       IF ~content /\ found # {}
       THEN Readability(FALSE, "captcha_blocked",
                "CAPTCHA or bot detection ("
                    \o captcha_indicators[CHOOSE i \in found : \A j \in found : i <= j]
                    \o ")")
       ELSE IF content THEN Readability(TRUE, "readable", None)
       ELSE Readability(FALSE, "empty", "No text content found") :
         text_lower \in {Lower(page.page_text)},
         html_lower \in {Lower(page.page_html)},
         content    \in {has_content(page.page_text)}} : TRUE

PageTexts ==
    {"",
     "  \n ",
     "Please wait",
     "Checking your browser before accessing the site",
     "Access Denied",
     Repeat("x", 50) \o "y",                                  \* 100 characters
     Repeat("x", 51),                                         \* 101 characters
     " \n" \o Repeat("x", 50) \o "y\n",                        \* 103, 100 stripped
     "Verify you are human " \o Repeat("x", 40),              \* 100 characters
     "Verify you are human " \o Repeat("x", 41),              \* 102 characters
     Repeat("story", 20) \o " Enable JavaScript to comment"}  \* an article

PageHtmls ==
    {"<html><body></body></html>",
     "<body><p>article</p></body>",
     "<noscript>Please enable JavaScript</noscript>",
     "<title>Access Denied</title>",
     "<div id=\"cf\">Unusual activity detected</div>"}

Pages == [page_text : PageTexts, page_html : PageHtmls, raises : BOOLEAN]

InitLoader ==
    /\ pl_pc = "ready"
    /\ pl_in \in Pages
    /\ pl_out = None
    /\ TaskIdle /\ CeIdle /\ CvIdle /\ ErIdle /\ TcIdle /\ SubIdle /\ RtIdle /\ KbIdle

CheckReadability ==
    /\ pl_pc = "ready"
    /\ pl_out' = check_readability(pl_in)
    /\ pl_pc' = "done"
    /\ UNCHANGED <<pl_in, taskVars, ceVars, cvVars, erVars, tcVars, subVars, rtVars, kbVars>>

NextLoader == CheckReadability

SpecLoader == InitLoader /\ [][NextLoader]_vars

(***************************************************************************)
(* Claims about the page loader                                            *)
(***************************************************************************)
PlDone == pl_pc = "done"

\* The page carries a CAPTCHA / bot-detection signature, in any letter case,
\* in its text or in its HTML.
HasBlockSignature(page) ==
    \E i \in 1..Len(captcha_indicators) :
        \/ Contains(Lower(page.page_text), captcha_indicators[i])
        \/ Contains(Lower(page.page_html), captcha_indicators[i])

\* C13: the page loader reports captcha_blocked only when a signature is found
\* and the page has no usable content; a page with usable content is readable
\* even when a signature is present; a page with neither is empty, not blocked.
C13_BlockedOnlyWithoutContent ==
    (PlDone /\ ~pl_in.raises) =>
        /\ pl_out.status = "captcha_blocked" =>
               HasBlockSignature(pl_in) /\ ~has_content(pl_in.page_text)
        /\ has_content(pl_in.page_text) =>
               pl_out.status = "readable" /\ pl_out.is_readable
        /\ (~has_content(pl_in.page_text) /\ ~HasBlockSignature(pl_in)) =>
               pl_out.status = "empty" /\ ~pl_out.is_readable

\* A page with usable content and a signature has been checked.
C13_Witness ==
    /\ PlDone /\ ~pl_in.raises
    /\ has_content(pl_in.page_text)
    /\ HasBlockSignature(pl_in)
    /\ pl_out.status = "readable"

(***************************************************************************)
(* Claims about the writers of the Task Store                              *)
(***************************************************************************)
\* C14: a result field written by a later stage (here the resolved entities
\* that the resolution stage stores under result.resolved_entities) is never
\* overwritten or erased by a write of an earlier stage: a (redelivered)
\* extraction-stage set_task_result leaves it as it was.
C14_LaterFieldsSurviveEarlierWrites ==
    [][\A t \in TaskIds, raw \in RawResults :
          ( /\ tasks[t].exists
            /\ tasks[t].result # NoResult
            /\ tasks[t].result["resolved_entities"] # Absent
            /\ set_task_result(t, raw) )
          => tasks'[t].result["resolved_entities"] = tasks[t].result["resolved_entities"]]_vars

\* C16: a task with a non-null error has status failed or blocked; a pending,
\* processing or completed task never carries an error.
C16_ErrorImpliesFailed ==
    \A t \in TaskIds :
        (tasks[t].exists /\ tasks[t].error # None)
            => tasks[t].status \in {TaskStatus.FAILED, "blocked"}

(***************************************************************************)
(* Token costs (TaskStore.add_token_cost in services/task_store.py)        *)
(*                                                                         *)
(* add_token_cost reads the task, changes its own copy of token_costs and  *)
(* writes the whole map back; the read and the write are two requests to   *)
(* Firestore, so calls of different workers for one task interleave.       *)
(* tc_costs is the token_costs field of the task's document, tc_workers    *)
(* the position of each worker in its call.                                *)
(***************************************************************************)
MaxWorkers == 2     \* workers that record a cost for the task
MaxTokens  == 2     \* largest token count a worker records

Workers     == 1..MaxWorkers
TokenCounts == 1..MaxTokens

CostSteps == {"extraction", "cleaning", "resolution", "semantization"}

\* "token_costs" of create_task
NewTokenCosts == [k \in CostSteps \cup {"total"} |-> 0]

\* task.token_costs[step] = tokens, then the total recalculated from the
\* entries other than "total"
WithTokenCost(token_costs, step, tokens) ==
    LET set == [token_costs EXCEPT ![step] = tokens]
    IN  [set EXCEPT !["total"] = set["extraction"] + set["cleaning"]
                                   + set["resolution"] + set["semantization"]]

WorkerIdle == [pc |-> "idle", step |-> None, tokens |-> 0, token_costs |-> NewTokenCosts]

\* add_token_cost, up to the update: get_task and the change of the copy
add_token_cost_get(w, step, tokens) ==
    /\ tc_workers[w].pc = "idle"
    /\ tc_workers' = [tc_workers EXCEPT ![w] =
                        [pc |-> "read", step |-> step, tokens |-> tokens,
                         token_costs |-> WithTokenCost(tc_costs, step, tokens)]]
    /\ UNCHANGED tc_costs

\* add_token_cost, the update: document(task_id).update({"token_costs": ...})
add_token_cost_update(w) ==
    /\ tc_workers[w].pc = "read"
    /\ tc_costs' = tc_workers[w].token_costs
    /\ tc_workers' = [tc_workers EXCEPT ![w].pc = "done"]

InitCosts ==
    /\ tc_costs = NewTokenCosts
    /\ tc_workers = [w \in Workers |-> WorkerIdle]
    /\ TaskIdle /\ CeIdle /\ CvIdle /\ ErIdle /\ PlIdle /\ SubIdle /\ RtIdle /\ KbIdle

CostsOnly == UNCHANGED <<taskVars, ceVars, cvVars, erVars, plVars, subVars, rtVars, kbVars>>

AddTokenCostGet ==
    /\ \E w \in Workers, step \in CostSteps, tokens \in TokenCounts :
          add_token_cost_get(w, step, tokens)
    /\ CostsOnly

AddTokenCostUpdate == (\E w \in Workers : add_token_cost_update(w)) /\ CostsOnly

NextCosts ==
    \/ AddTokenCostGet
    \/ AddTokenCostUpdate

SpecCosts == InitCosts /\ [][NextCosts]_vars

(***************************************************************************)
(* Claims about concurrent updates of one task                             *)
(***************************************************************************)
\* C15: concurrent Task Store updates of one task id are serialized, so no
\* update is lost: once workers have recorded token costs for different
\* stages, the task carries the cost of every one of them, and the total is
\* their sum.
C15_NoTokenCostLost ==
    \A w \in Workers :
        ( /\ tc_workers[w].pc = "done"
          /\ \A v \in Workers \ {w} : tc_workers[v].step # tc_workers[w].step )
        => tc_costs[tc_workers[w].step] = tc_workers[w].tokens

(***************************************************************************)
(* Submission endpoint (app/routers/extraction.py, submit_url)             *)
(*                                                                         *)
(* sub_db is the SQL database: the rows of extraction_tasks, the user's    *)
(* credits_balance, the rows of user_urls and the extractions triggered.   *)
(* A request awaits the database between its statements, so the requests   *)
(* of one process interleave at those points: after the credit and         *)
(* dead-link checks, and between the duplicate lookup and the commit of    *)
(* the new row.  Time is in hours.  The same user can unlock a chat        *)
(* session (app/database/repositories/chat_session_repo.py), which reads   *)
(* the balance, deducts the cost in the session and writes at the flush.   *)
(***************************************************************************)
MaxRequests == 2     \* requests (submissions, chat unlocks) in one run
MaxHours    == 36    \* the clock stops here
TickHours   == 12    \* what the clock advances by

SUBMISSION_COST  == 10
DedupWindowHours == 24                  \* timedelta(hours=24)
ChatCost         == 10                  \* create_session(..., cost: int = 10)
ChatStories      == {"story-1"}         \* the stories a chat can be unlocked for

Requests       == 1..MaxRequests
CreditBalances == {SUBMISSION_COST, 2 * SUBMISSION_COST}
NoTaskId       == 0

RequestIdle ==
    [pc |-> "idle", url |-> 0, force |-> FALSE, at |-> 0,
     http |-> 0, task_id |-> NoTaskId, reused |-> FALSE,
     story_id |-> "", balance |-> 0, raised |-> ""]

\* select(ExtractionTask).where(url == url).where(created_at >= cutoff_time)
RecentTasks(url) ==
    {row \in sub_db.tasks :
        row.url = url /\ row.created_at >= sub_now - DedupWindowHours}

\* .order_by(created_at.desc()).limit(1): the rows the query may return
MostRecent(rows) == {row \in rows : \A other \in rows : other.created_at <= row.created_at}

\* str(uuid.uuid4()): an id no row has
FreshTaskId == CHOOSE id \in 1..(Cardinality(sub_db.tasks) + 1) :
                   \A row \in sub_db.tasks : row.id # id

Finish(r, http, task_id, reused) ==
    [sub_reqs EXCEPT ![r].pc = "done", ![r].http = http,
                     ![r].task_id = task_id, ![r].reused = reused]

\* The checks before the duplicate lookup: 402 without credits, 400 for a
\* dead link (HEAD answers 404).
submit_url_checks(r, url, force, head_404) ==
    /\ sub_reqs[r].pc = "idle"
    /\ sub_reqs' =
         IF sub_db.credits_balance < SUBMISSION_COST THEN Finish(r, 402, NoTaskId, FALSE)
         ELSE IF head_404 THEN Finish(r, 400, NoTaskId, FALSE)
         ELSE [sub_reqs EXCEPT ![r].pc = "lookup", ![r].url = url, ![r].force = force]
    /\ UNCHANGED <<sub_db, sub_now>>

\* The duplicate lookup.  With a recent task for the URL the request charges
\* the user, links the task and returns it; otherwise (or with force) it
\* builds the new row, whose created_at is the time of this step.
submit_url_lookup(r) ==
    LET req == sub_reqs[r] IN
    /\ req.pc = "lookup"
    /\ UNCHANGED sub_now
    /\ IF ~req.force /\ RecentTasks(req.url) # {}
       THEN \E existing_task \in MostRecent(RecentTasks(req.url)) :
              /\ sub_db' = [sub_db EXCEPT
                              !.credits_balance = @ - SUBMISSION_COST,
                              !.user_urls = @ \cup {[req |-> r, task_id |-> existing_task.id]}]
              /\ sub_reqs' = [Finish(r, 200, existing_task.id, TRUE) EXCEPT ![r].at = sub_now]
       ELSE /\ sub_reqs' = [sub_reqs EXCEPT ![r].pc = "create", ![r].at = sub_now]
            /\ UNCHANGED sub_db

\* The commit of the new row, the trigger of the extraction and the answer.
submit_url_create(r) ==
    LET req == sub_reqs[r]
        task_id == FreshTaskId
    IN
    /\ req.pc = "create"
    /\ sub_db' = [sub_db EXCEPT
                    !.tasks = @ \cup {[id |-> task_id, url |-> req.url, created_at |-> req.at]},
                    !.credits_balance = @ - SUBMISSION_COST,
                    !.user_urls = @ \cup {[req |-> r, task_id |-> task_id]},
                    !.triggered = @ \cup {task_id}]
    /\ sub_reqs' = Finish(r, 200, task_id, FALSE)
    /\ UNCHANGED sub_now

\* ChatSessionRepository.create_session up to the check of the credits: an
\* existing session of the story is returned; otherwise the user row is read
\* into the session and a balance below the cost raises ValueError.
create_session_select(r, story_id) ==
    /\ sub_reqs[r].pc = "idle"
    /\ sub_reqs' =
         IF story_id \in sub_db.chat_sessions
         THEN [sub_reqs EXCEPT ![r].pc = "done", ![r].story_id = story_id,
                               ![r].reused = TRUE]
         ELSE IF sub_db.credits_balance < ChatCost
         THEN [sub_reqs EXCEPT ![r].pc = "done", ![r].story_id = story_id,
                               ![r].raised = "ValueError"]
         ELSE [sub_reqs EXCEPT ![r].pc = "flush", ![r].story_id = story_id,
                               ![r].balance = sub_db.credits_balance - ChatCost]
    /\ UNCHANGED <<sub_db, sub_now>>

\* `await self.db.flush()`: the user row is written with the balance the
\* session computed, and the chat session row is inserted.
create_session_flush(r) ==
    /\ sub_reqs[r].pc = "flush"
    /\ sub_db' = [sub_db EXCEPT !.credits_balance = sub_reqs[r].balance,
                                !.chat_sessions = @ \cup {sub_reqs[r].story_id}]
    /\ sub_reqs' = [sub_reqs EXCEPT ![r].pc = "done"]
    /\ UNCHANGED sub_now

InitSubmit ==
    /\ sub_db \in [tasks : {{}}, credits_balance : CreditBalances,
                   user_urls : {{}}, triggered : {{}}, chat_sessions : {{}}]
    /\ sub_reqs = [r \in Requests |-> RequestIdle]
    /\ sub_now = 0
    /\ TaskIdle /\ CeIdle /\ CvIdle /\ ErIdle /\ PlIdle /\ TcIdle /\ RtIdle /\ KbIdle

SubmitOnly == UNCHANGED <<taskVars, ceVars, cvVars, erVars, plVars, tcVars, rtVars, kbVars>>

SubmitUrlChecks ==
    /\ \E r \in Requests, url \in Urls, force \in BOOLEAN, head_404 \in BOOLEAN :
          submit_url_checks(r, url, force, head_404)
    /\ SubmitOnly

SubmitUrlLookup == (\E r \in Requests : submit_url_lookup(r)) /\ SubmitOnly

SubmitUrlCreate == (\E r \in Requests : submit_url_create(r)) /\ SubmitOnly

CreateSessionSelect ==
    /\ \E r \in Requests, story_id \in ChatStories : create_session_select(r, story_id)
    /\ SubmitOnly

CreateSessionFlush == (\E r \in Requests : create_session_flush(r)) /\ SubmitOnly

ClockTick ==
    /\ sub_now + TickHours <= MaxHours
    /\ sub_now' = sub_now + TickHours
    /\ UNCHANGED <<sub_db, sub_reqs>>
    /\ SubmitOnly

NextSubmit ==
    \/ SubmitUrlChecks
    \/ SubmitUrlLookup
    \/ SubmitUrlCreate
    \/ CreateSessionSelect
    \/ CreateSessionFlush
    \/ ClockTick

SpecSubmit == InitSubmit /\ [][NextSubmit]_vars

(***************************************************************************)
(* Claims about submissions                                                *)
(***************************************************************************)
Accepted(r) == sub_reqs[r].pc = "done" /\ sub_reqs[r].task_id # NoTaskId

\* C17: two submissions of the same URL within 24 hours of each other, neither
\* with force, share one task; this holds also when they are concurrent.
C17_SameUrlSharesTask ==
    \A r1 \in Requests, r2 \in Requests :
        ( /\ Accepted(r1) /\ Accepted(r2)
          /\ sub_reqs[r1].url = sub_reqs[r2].url
          /\ ~sub_reqs[r1].force /\ ~sub_reqs[r2].force
          /\ sub_reqs[r1].at - sub_reqs[r2].at <= DedupWindowHours
          /\ sub_reqs[r2].at - sub_reqs[r1].at <= DedupWindowHours )
        => sub_reqs[r1].task_id = sub_reqs[r2].task_id

(***************************************************************************)
(* Claims about the hedging filter of the gatekeeper                       *)
(***************************************************************************)
HedgingReason == "Hedging: Vague language without proper attribution"

\* A hedge word, or a criminal term, in a text already in lower case.
HedgeWordIn(lowered) ==
    \E h \in {"reportedly", "allegedly", "might have", "may have", "rumored", "unconfirmed"} :
        Contains(lowered, h)
CriminalTermIn(lowered) ==
    \E h \in {"murdered", "killed", "assassinated", "raped", "trafficked", "kidnapped"} :
        Contains(lowered, h)

\* The candidate passes the attribution, temporal, modality and evidence
\* checks and has confidence of at least 0.65.
PassesOtherChecks(c) ==
    /\ \E i \in 1..Len(c.who) : Contains(c.who[i], ":")
    /\ HasEventDate(c.when)
    /\ c.modality \in {"official_fact", "reported_claim", "allegation", "opinion"}
    /\ Len(c.evidence_references) > 0
    /\ c.confidence >= 650

\* C18: a candidate claim that passes the attribution, temporal, modality and
\* evidence checks, has confidence at least 0.65 and contains no criminal term
\* is admitted exactly when its text contains no hedge word, in any letter
\* case; with a hedge word it is excluded with the hedging reason.  Stated of
\* the gatekeeper's verdict on every candidate of the answer and of the two
\* lists the extractor returns.
C18_HedgeWordDecides ==
    CeDone =>
        /\ \A i \in 1..Len(ce_llm.claims) :
              \E c \in {normalize_claim(ce_llm.claims[i], SourceUrl)} :
                 PassesOtherChecks(c) =>
                    \E lowered \in {Lower(c.text)} :
                       ~CriminalTermIn(lowered) =>
                          \E verdict \in {passes_claim_premises(c)} :
                             /\ verdict.admitted <=> ~HedgeWordIn(lowered)
                             /\ HedgeWordIn(lowered) => verdict.reason = HedgingReason
        /\ \A k \in 1..Len(ce_out.claims) :
              PassesOtherChecks(ce_out.claims[k]) =>
                 \E lowered \in {Lower(ce_out.claims[k].text)} :
                    ~CriminalTermIn(lowered) => ~HedgeWordIn(lowered)
        /\ \A k \in 1..Len(ce_out.excluded_claims) :
              PassesOtherChecks(ce_out.excluded_claims[k]) =>
                 \E lowered \in {Lower(ce_out.excluded_claims[k].text)} :
                    ~CriminalTermIn(lowered) =>
                       /\ HedgeWordIn(lowered)
                       /\ ce_out.excluded_claims[k].excluded_reason = HedgingReason

\* A result with an admitted claim free of hedge words and an excluded one
\* whose only fault is a hedge word written with a capital letter.
C18_Witness ==
    /\ CeDone
    /\ \E k \in 1..Len(ce_out.claims) :
          /\ PassesOtherChecks(ce_out.claims[k])
          /\ ~HasCriminalTerm(ce_out.claims[k].text)
    /\ \E k \in 1..Len(ce_out.excluded_claims) :
          /\ PassesOtherChecks(ce_out.excluded_claims[k])
          /\ ~HasCriminalTerm(ce_out.excluded_claims[k].text)
          /\ Contains(ce_out.excluded_claims[k].text, "Reportedly")
          /\ ce_out.excluded_claims[k].excluded_reason = HedgingReason

(***************************************************************************)
(* Claims about the verification pass of the content validator             *)
(***************************************************************************)
\* The raw text is long enough for the cleaning service to be called.
CleaningCalled(in) ==
    Len(Strip(in.extraction_result.content_text)) >= 50

\* The cleaning call succeeded: the service answered, the answer was parsed
\* and its cleaned_metadata is an object or is left out, so that the try block
\* of validate_extraction ran to its end.
CleaningSucceeded(in) ==
    /\ CleaningCalled(in)
    /\ in.upstream.call = "ok"
    /\ in.upstream.cleaned_metadata.kind # "null"

HasFlag(flags, flag) == \E k \in 1..Len(flags) : flags[k] = flag

\* C19: whenever the cleaning call succeeds, the returned flags contain
\* paywall_detected if the raw text joined with the cleaned text contains a
\* paywall keyword in any letter case, short_content if the cleaned text has
\* fewer than 300 words and empty_content if it has fewer than 50 words,
\* whatever flags the upstream model proposed.
C19_VerificationPassForcesFlags ==
    (CvDone /\ CleaningSucceeded(cv_in)) =>
        \E words \in {WordCount(cv_in.upstream.cleaned_content)},
           text  \in {Lower(cv_in.extraction_result.content_text \o " "
                            \o cv_in.upstream.cleaned_content)} :
            /\ (\E k \in 1..Len(paywall_patterns) : Contains(text, paywall_patterns[k]))
                  => HasFlag(cv_out.flags, "paywall_detected")
            /\ words < 300 => HasFlag(cv_out.flags, "short_content")
            /\ words < 50  => HasFlag(cv_out.flags, "empty_content")

\* The upstream model proposed a flag but none of the three, and the pass
\* added all three.
C19_Witness ==
    /\ CvDone /\ CleaningSucceeded(cv_in)
    /\ cv_in.upstream.flags = <<"navigation_heavy">>
    /\ cv_in.upstream.cleaned_content = "Subscribe to continue reading"
    /\ HasFlag(cv_out.flags, "navigation_heavy")
    /\ HasFlag(cv_out.flags, "paywall_detected")
    /\ HasFlag(cv_out.flags, "short_content")
    /\ HasFlag(cv_out.flags, "empty_content")

(***************************************************************************)
(* Claims about the fast path of the content validator                     *)
(***************************************************************************)
FlagSet(flags) == {flags[k] : k \in 1..Len(flags)}

\* C20 as stated: for raw content of 30 words, validate returns exactly the
\* flags short_content and empty_content and an empty cleaned content.
C20_ThirtyWordsTakeFastPath ==
    (CvDone /\ WordCount(cv_in.extraction_result.content_text) = 30) =>
        /\ FlagSet(cv_out.flags) = {"short_content", "empty_content"}
        /\ cv_out.cleaned_content = ""

\* C20, amended: for raw content of fewer than 50 characters once stripped,
\* validate returns exactly the flags short_content and empty_content and an
\* empty cleaned content, whatever the cleaning service would answer; raw
\* content of 50 characters or more (30 words are at least 59) goes to the
\* cleaning service, and when that call succeeds the cleaned content returned
\* is the one of the service.
C20_ShortTextTakesFastPath ==
    CvDone =>
        /\ ~CleaningCalled(cv_in) =>
              /\ cv_out.flags = <<"short_content", "empty_content">>
              /\ cv_out.cleaned_content = ""
        /\ CleaningSucceeded(cv_in) =>
              cv_out.cleaned_content = cv_in.upstream.cleaned_content

\* A text of ten characters has been validated while the cleaning service had
\* a cleaned text and other flags to offer.
C20_Witness ==
    /\ CvDone
    /\ cv_in.extraction_result.content_text = "Too short."
    /\ cv_in.upstream.call = "ok"
    /\ cv_in.upstream.cleaned_content # ""
    /\ cv_in.upstream.flags = <<"navigation_heavy">>
    /\ cv_out.flags = <<"short_content", "empty_content">>
    /\ cv_out.cleaned_content = ""

(***************************************************************************)
(* Claims about canonical names                                            *)
(***************************************************************************)
HasMention(text, label) ==
    \E i \in 1..Len(er_in) : er_in[i].text = text /\ er_in[i].label = label

\* C21: two mentions "Gavin Newsom" and "Newsom" of the same entity type in
\* one document are deduplicated into a single canonical entity, named
\* "Gavin Newsom", the longest member of the cluster.
C21_NewsomIsOneEntity ==
    (ErDone /\ HasMention("Gavin Newsom", "PERSON") /\ HasMention("Newsom", "PERSON")) =>
        \E k \in 1..Len(er_out["PERSON"]) :
            /\ {"Gavin Newsom", "Newsom"} \subseteq er_out["PERSON"][k].mentions
            /\ er_out["PERSON"][k].canonical_name = "Gavin Newsom"
            /\ \A x \in 1..Len(er_out["PERSON"]) :
                  "Newsom" \in er_out["PERSON"][x].mentions => x = k

(***************************************************************************)
(* Claims about claim ids                                                  *)
(***************************************************************************)
\* Candidates of other runs that carry the same text with other fields.
SameTextCandidates(text) ==
    [text : {text}, who : {<<>>, <<"PERSON:Jane Doe">>}, where : {<<"GPE: Paris">>, <<>>},
     when : {WhenDated, WhenMissing}, modality : {"official_fact", "rumor"},
     evidence_references : {<<"statement">>}, confidence : {500}]

ReturnedClaims ==
    {ce_out.claims[k] : k \in 1..Len(ce_out.claims)}
        \cup {[f \in DOMAIN ce_out.excluded_claims[k] \ {"excluded_reason"} |->
                  ce_out.excluded_claims[k][f]] : k \in 1..Len(ce_out.excluded_claims)}

\* C22: the claim id depends only on the schema version, the source URL and
\* the claim text: whatever the other claims of the batch and the other
\* fields of the claim are, a claim with the same source URL and text gets
\* the same id.
C22_IdDependsOnUrlAndText ==
    CeDone =>
        \A c \in ReturnedClaims :
            \A other \in SameTextCandidates(c.text) :
                normalize_claim(other, SourceUrl).id = c.id

\* Two claims were returned from one batch, one admitted and one excluded.
C22_Witness ==
    /\ CeDone
    /\ Len(ce_out.claims) = 1
    /\ Len(ce_out.excluded_claims) = 1
    /\ ce_out.claims[1].id # ce_out.excluded_claims[1].id

(***************************************************************************)
(* Claims about the order of the gatekeeper's checks                       *)
(***************************************************************************)
CheckOrder ==
    <<"Attribution", "Temporal", "Modality", "Evidence", "Hedging", "Controversy",
      "Confidence">>

\* The checks a candidate fails, by the policy of each check.
FailedChecks(c, lowered) ==
    {ck \in {CheckOrder[n] : n \in 1..Len(CheckOrder)} :
        \/ ck = "Attribution" /\ ~\E i \in 1..Len(c.who) : Contains(c.who[i], ":")
        \/ ck = "Temporal"    /\ ~HasEventDate(c.when)
        \/ ck = "Modality"    /\ c.modality \notin
                                   {"official_fact", "reported_claim", "allegation", "opinion"}
        \/ ck = "Evidence"    /\ Len(c.evidence_references) = 0
        \/ ck = "Hedging"     /\ HedgeWordIn(lowered)
        \/ ck = "Controversy" /\ CriminalTermIn(lowered) /\ c.modality # "official_fact"
        \/ ck = "Confidence"  /\ c.confidence < 650}

FirstOf(failed) ==
    CheckOrder[CHOOSE n \in 1..Len(CheckOrder) :
                  /\ CheckOrder[n] \in failed
                  /\ \A m \in 1..(n - 1) : CheckOrder[m] \notin failed]

\* C23: for a claim that fails several gatekeeper checks, the excluded_reason
\* is that of the first failing check in the order attribution, temporal
\* context, modality, evidence, hedging, controversy guard, confidence floor.
C23_FirstFailingCheckWins ==
    CeDone =>
        \A i \in 1..Len(ce_llm.claims) :
            \E c \in {normalize_claim(ce_llm.claims[i], SourceUrl)} :
               \E failed \in {FailedChecks(c, Lower(c.text))} :
                  Cardinality(failed) >= 2 =>
                     \E verdict \in {passes_claim_premises(c)} :
                        /\ ~verdict.raised
                        /\ ~verdict.admitted
                        /\ StartsWith(verdict.reason, FirstOf(failed) \o ":")

(***************************************************************************)
(* Generative-model calls and their retry                                  *)
(* (services/semantic_analyzer.py _with_retry; the direct calls of         *)
(* services/content_validator.py and services/entity_resolver.py)          *)
(***************************************************************************)
\* The call sites: the claim extractor calls through _with_retry, the
\* content validator and the entity resolver call the client directly.
CallSites == {"semantic_analyzer", "content_validator", "entity_resolver"}

uses_with_retry(site) == site = "semantic_analyzer"

\* The substrings of str(e) for which _with_retry tries again.
RetryTokens == {"429", "Rate limit", "timeout", "500", "502", "503"}

CallOk == [kind |-> "ok", message |-> ""]

\* What one attempt can raise: the condition met and the text of str(e).
CallErrors ==
    {[kind |-> "rate_limit",   message |-> "Error code: 429 - Rate limit reached"],
     [kind |-> "rate_limit",   message |-> "Error code: 429 - You exceeded your current quota"],
     [kind |-> "timeout",      message |-> "Request timed out."],
     [kind |-> "server_error", message |-> "Error code: 500 - Internal server error"],
     [kind |-> "server_error", message |-> "Error code: 502 - Bad gateway"],
     [kind |-> "server_error", message |-> "Error code: 503 - Service unavailable"],
     [kind |-> "server_error", message |-> "Error code: 504 - Gateway time-out"],
     [kind |-> "connection",   message |-> "Connection error."],
     [kind |-> "auth",         message |-> "Error code: 401 - Incorrect API key provided"],
     [kind |-> "not_found",    message |-> "Error code: 404 - The model does not exist"],
     [kind |-> "bad_request",  message |-> "Error code: 400 - you requested 150023 tokens"]}

CallOutcomes == {CallOk} \cup CallErrors

\* `i == 0 and any(t in str(e) for t in [...])`
retries_after(i, e) == i = 0 /\ \E t \in RetryTokens : Contains(e.message, t)

\* One iteration of `for i in range(2)`: fn returns, or raises e.
with_retry_attempt(call, outcome) ==
    LET attempts == Append(call.attempts, outcome) IN
    IF outcome.kind = "ok"
    THEN [call EXCEPT !.attempts = attempts, !.pc = "returned", !.result = outcome]
    ELSE IF retries_after(call.i, outcome)
         THEN [call EXCEPT !.attempts = attempts, !.pc = "sleep"]
         ELSE [call EXCEPT !.attempts = attempts, !.pc = "raised", !.result = outcome]

\* `time.sleep(1.2); continue`
with_retry_continue(call) == [call EXCEPT !.i = call.i + 1, !.pc = "call"]

\* `self.client.chat.completions.create(...)` with no loop around it.
direct_call(call, outcome) ==
    [call EXCEPT !.attempts = Append(call.attempts, outcome),
                 !.pc = IF outcome.kind = "ok" THEN "returned" ELSE "raised",
                 !.result = outcome]

InitRetry ==
    /\ \E site \in CallSites :
          rt_call = [site |-> site, pc |-> "call", i |-> 0, attempts |-> <<>>,
                     result |-> CallOk]
    /\ TaskIdle /\ CeIdle /\ CvIdle /\ ErIdle /\ PlIdle /\ TcIdle /\ SubIdle /\ KbIdle

RetryOnly == UNCHANGED <<taskVars, ceVars, cvVars, erVars, plVars, tcVars, subVars, kbVars>>

WithRetryAttempt ==
    /\ rt_call.pc = "call"
    /\ uses_with_retry(rt_call.site)
    /\ \E outcome \in CallOutcomes : rt_call' = with_retry_attempt(rt_call, outcome)
    /\ RetryOnly

WithRetryContinue ==
    /\ rt_call.pc = "sleep"
    /\ rt_call' = with_retry_continue(rt_call)
    /\ RetryOnly

DirectCall ==
    /\ rt_call.pc = "call"
    /\ ~uses_with_retry(rt_call.site)
    /\ \E outcome \in CallOutcomes : rt_call' = direct_call(rt_call, outcome)
    /\ RetryOnly

NextRetry == WithRetryAttempt \/ WithRetryContinue \/ DirectCall

SpecRetry == InitRetry /\ [][NextRetry]_vars

(***************************************************************************)
(* Claims about the retry of generative-model calls                        *)
(***************************************************************************)
\* The transient conditions: rate limit, timeout, 5xx.
Transient(outcome) == outcome.kind \in {"rate_limit", "timeout", "server_error"}

\* C24: every generative-model call is attempted at most twice; a second
\* attempt is made only after the first failed with a transient condition;
\* a non-transient error on the first attempt, and any error on the second,
\* is surfaced without a further attempt.
C24_RetryOnlyTransientOnce ==
    \E attempts \in {rt_call.attempts} :
       /\ Len(attempts) <= 2
       /\ (Len(attempts) >= 1 /\ attempts[1].kind # "ok" /\ ~Transient(attempts[1]))
             => (Len(attempts) = 1 /\ rt_call.pc = "raised" /\ rt_call.result = attempts[1])
       /\ (Len(attempts) = 2 /\ attempts[2].kind # "ok")
             => (rt_call.pc = "raised" /\ rt_call.result = attempts[2])

(***************************************************************************)
(* Claims about a failed cleaning call                                     *)
(***************************************************************************)
\* The cleaning call was made and failed: the call raised, the answer could
\* not be parsed, or the parsed answer has a shape the handling cannot read.
CleaningFailed(in) == CleaningCalled(in) /\ ~CleaningSucceeded(in)

\* C25: when the upstream cleaning call fails in any way (call error,
\* unparsable or malformed response), validate returns a result with
\* is_valid = true, empty cleaned metadata, empty cleaned content and the
\* flags exactly [validation_error].
C25_FailedCleaningIsFlagged ==
    (CvDone /\ CleaningFailed(cv_in)) =>
        /\ cv_out.is_valid = "True"
        /\ cv_out.cleaned_data = EmptyDict
        /\ cv_out.cleaned_content = ""
        /\ cv_out.flags = <<"validation_error">>

C25_Witness ==
    /\ CvDone /\ CleaningFailed(cv_in)
    /\ cv_in.upstream.call = "ok"
    /\ cv_in.upstream.cleaned_metadata.kind = "null"
    /\ cv_in.upstream.is_valid = "False"
    /\ cv_in.upstream.cleaned_content = "Subscribe to continue reading"
    /\ cv_out.flags = <<"validation_error">>

(***************************************************************************)
(* Claims about a failed claim-extraction call                             *)
(***************************************************************************)
\* C26: when the generative call for claims fails, extract returns empty
\* claims, empty excluded claims and empty entity sets, with a non-empty
\* note in notes_unsupported.
C26_FailedCallGivesEmptyResult ==
    (CeDone /\ ce_llm.has_page_text /\ ce_llm.call = "error") =>
        /\ ce_out.claims = <<>>
        /\ ce_out.excluded_claims = <<>>
        /\ ce_out.entities = NoEntities
        /\ Len(ce_out.notes_unsupported) >= 1
        /\ \A k \in 1..Len(ce_out.notes_unsupported) : Len(ce_out.notes_unsupported[k]) > 0

C26_Witness ==
    /\ CeDone /\ ce_llm.has_page_text /\ ce_llm.call = "error"
    /\ ce_out.notes_unsupported = <<"Error: upstream">>

(***************************************************************************)
(* Claims about the normalized confidence (in thousandths)                 *)
(***************************************************************************)
Clamped(raw) == IF raw > 990 THEN 990 ELSE IF raw < 0 THEN 0 ELSE raw

\* C28 as stated: after normalization every candidate's confidence is its
\* raw value clamped to [0, 0.99]: a value above 0.99 becomes 0.99 and a
\* value below 0 becomes 0.
C28_ConfidenceIsClamped ==
    CeDone =>
        \A i \in 1..Len(ce_llm.claims) :
            normalize_claim(ce_llm.claims[i], SourceUrl).confidence
                = Clamped(ce_llm.claims[i].confidence)

\* C28 amended: after normalization every candidate's confidence lies in
\* [0, 0.99]: a raw value in [0, 1] is kept, cut to 0.99 when it is above
\* 0.99; a raw value below 0 or above 1 is replaced by the default 0.7.
C28_ConfidenceInRangeOrDefault ==
    CeDone =>
        /\ \A c \in ReturnedClaims : c.confidence >= 0 /\ c.confidence <= 990
        /\ \A i \in 1..Len(ce_llm.claims) :
              \E raw \in {ce_llm.claims[i].confidence} :
                 \E normal \in {normalize_claim(ce_llm.claims[i], SourceUrl).confidence} :
                    /\ normal >= 0 /\ normal <= 990
                    /\ (raw >= 0 /\ raw <= 1000) => normal = Clamped(raw)
                    /\ (raw < 0 \/ raw > 1000) => normal = 700

\* A single-claim answer whose raw confidence was outside [0, 1] came back
\* with the default.
C28_Witness ==
    /\ CeDone
    /\ Len(ce_llm.claims) = 1
    /\ ce_llm.claims[1].confidence \in {1500, -200}
    /\ \E c \in ReturnedClaims : c.confidence = 700

(***************************************************************************)
(* Entity linking (services/entity_resolver.py _link_wikidata)             *)
(*                                                                         *)
(* Several resolve calls of the one EntityResolver share wikidata_cache.   *)
(* A call walks its canonical entities; for each it reads the cache and,   *)
(* on a miss, awaits _query_wikidata, where other calls can run.           *)
(***************************************************************************)
MaxCalls    == 2      \* resolve calls in flight on the one EntityResolver
MaxEntities == 2      \* canonical entities handed to one _link_wikidata call

LinkCalls == 1..MaxCalls
Languages == {"en", "es"}

KbEntities ==
    {[entity_type |-> "PERSON", canonical_name |-> "Gavin Newsom", wikidata_qid |-> None],
     [entity_type |-> "GPE",    canonical_name |-> "California",   wikidata_qid |-> None]}

\* f"{language}:{entity_type}:{entity.canonical_name}"
cache_key(language, entity) ==
    language \o ":" \o entity.entity_type \o ":" \o entity.canonical_name

CacheKeys == {cache_key(l, e) : l \in Languages, e \in KbEntities}

\* What the search API can answer for a name: results (the first is the best
\* match), no result, or a failure of the request or of its decoding.
QidOf(name) == IF name = "Gavin Newsom" THEN "Q461391" ELSE "Q99"
LookupOutcomes(name) ==
    {[kind |-> "found", search |-> <<QidOf(name), "Q0">>],
     [kind |-> "empty", search |-> <<>>],
     [kind |-> "error", search |-> <<>>]}

\* _query_wikidata: the id of the first result, None when there is none or
\* when anything raised.
query_wikidata(outcome) ==
    IF outcome.kind = "error" THEN None
    ELSE IF Len(outcome.search) > 0 THEN outcome.search[1]
    ELSE None

\* A variant that returns only the entities that were linked.
linked_append_OnlyLinked(linked_list, entity, qid) ==
    IF qid = None THEN linked_list
    ELSE Append(linked_list, [entity EXCEPT !.wikidata_qid = qid])

\* `entity.wikidata_qid = qid; linked_list.append(entity)`
linked_append(linked_list, entity, qid) ==
    Append(linked_list, [entity EXCEPT !.wikidata_qid = qid])

\* The call has dealt with its current entity: the loop goes to the next
\* one, or the call returns.  `lookup` is what the call saw for the entity.
LinkStep(call, qid, lookup) ==
    [call EXCEPT !.linked = linked_append(call.linked, call.entities[call.idx], qid),
                 !.lookups = Append(call.lookups, lookup),
                 !.idx = call.idx + 1,
                 !.pc = IF call.idx + 1 > Len(call.entities) THEN "done" ELSE "check"]

\* `if cache_key in self.wikidata_cache` and the branch taken.
link_wikidata_check(c) ==
    \E call \in {kb_calls[c]} :
       \E key \in {cache_key(call.language, call.entities[call.idx])} :
          IF kb_cache[key] # Absentkey
          THEN /\ kb_calls' = [kb_calls EXCEPT ![c] =
                                  LinkStep(call, kb_cache[key],
                                           [kind |-> "cached", search |-> <<kb_cache[key]>>])]
               /\ UNCHANGED kb_cache
          ELSE /\ kb_calls' = [kb_calls EXCEPT ![c].pc = "await"]
               /\ UNCHANGED kb_cache

\* _query_wikidata has returned: the qid is set on the entity and written to
\* the cache.
link_wikidata_store(c, outcome) ==
    \E call \in {kb_calls[c]} :
       \E key \in {cache_key(call.language, call.entities[call.idx])} :
          \E qid \in {query_wikidata(outcome)} :
             /\ kb_cache' = [kb_cache EXCEPT ![key] = qid]
             /\ kb_calls' = [kb_calls EXCEPT ![c] = LinkStep(call, qid, outcome)]

\* The entity lists of one call: canonical entities are distinct.
EntityLists(max_entities) ==
    {q \in SeqsUpTo(KbEntities, max_entities) :
        Len(q) >= 1 /\ \A i, j \in 1..Len(q) : i # j => q[i] # q[j]}

InitLinker ==
    /\ kb_cache = [k \in CacheKeys |-> Absentkey]
    /\ \E calls \in [LinkCalls -> [language : Languages,
                                   entities : EntityLists(MaxEntities)]] :
          kb_calls = [c \in LinkCalls |->
                         [language |-> calls[c].language, entities |-> calls[c].entities,
                          idx |-> 1, pc |-> "check", linked |-> <<>>, lookups |-> <<>>]]
    /\ TaskIdle /\ CeIdle /\ CvIdle /\ ErIdle /\ PlIdle /\ TcIdle /\ SubIdle /\ RtIdle

LinkerOnly ==
    UNCHANGED <<taskVars, ceVars, cvVars, erVars, plVars, tcVars, subVars, rtVars>>

LinkWikidataCheck ==
    /\ \E c \in LinkCalls : kb_calls[c].pc = "check" /\ link_wikidata_check(c)
    /\ LinkerOnly

LinkWikidataStore ==
    /\ \E c \in LinkCalls :
          /\ kb_calls[c].pc = "await"
          /\ \E outcome \in
                LookupOutcomes(kb_calls[c].entities[kb_calls[c].idx].canonical_name) :
                   link_wikidata_store(c, outcome)
    /\ LinkerOnly

NextLinker == LinkWikidataCheck \/ LinkWikidataStore

SpecLinker == InitLinker /\ [][NextLinker]_vars

(***************************************************************************)
(* Claims about entity linking                                             *)
(***************************************************************************)
\* C27: a failed lookup for one entity gives that entity a null external id
\* and does not abort the batch: the call returns every canonical entity it
\* was given, each with the result of its own lookup.
C27_FailedLookupLeavesBatchWhole ==
    \A c \in LinkCalls :
       \E call \in {kb_calls[c]} :
          call.pc = "done" =>
             /\ Len(call.linked) = Len(call.entities)
             /\ \A i \in 1..Len(call.entities) :
                   /\ call.linked[i].canonical_name = call.entities[i].canonical_name
                   /\ call.linked[i].entity_type = call.entities[i].entity_type
                   /\ call.lookups[i].kind \in {"error", "empty"}
                         => call.linked[i].wikidata_qid = None
                   /\ call.lookups[i].kind \in {"found", "cached"}
                         => call.linked[i].wikidata_qid = call.lookups[i].search[1]

\* A call whose first lookup failed returned both entities, the second one
\* linked.
C27_Witness ==
    \E c \in LinkCalls :
       /\ kb_calls[c].pc = "done"
       /\ Len(kb_calls[c].entities) = 2
       /\ kb_calls[c].lookups[1].kind = "error"
       /\ kb_calls[c].linked[1].wikidata_qid = None
       /\ kb_calls[c].lookups[2].kind = "found"
       /\ kb_calls[c].linked[2].wikidata_qid = QidOf(kb_calls[c].entities[2].canonical_name)

\* C30: cache entries are write-once: once a key holds a value, a null
\* included, no step replaces it, overlapping resolve calls included.
C30_CacheIsWriteOnce ==
    [][\A k \in CacheKeys : kb_cache[k] # Absentkey => kb_cache'[k] = kb_cache[k]]_vars

(***************************************************************************)
(* Claims about the credits                                                *)
(***************************************************************************)
\* C29: the user's credits_balance is never negative, under any
\* interleaving of URL submissions and chat-session unlocks by that user.
C29_BalanceNeverNegative == sub_db.credits_balance >= 0

=============================================================================
